---------------------------- MODULE Spec2Model ----------------------------
(***************************************************************************)
(* State-machine model of the CHM documentation ingester and query server  *)
(* (heading-aware chunker, ingestion pipeline, hybrid indexer with its     *)
(* persisted artifacts, link graph builder, MCP request handlers).         *)
(*                                                                         *)
(* Texts are sequences of one-character strings, so that len(), split()    *)
(* and " ".join() are computed as Python computes them.  HTML fragments    *)
(* are sequences of elements; an element carries the set of anchors (id /  *)
(* name attribute values) that occur in its serialisation str(element).    *)
(***************************************************************************)
EXTENDS Integers, Sequences, FiniteSets, TLC

VARIABLES
    \* ---- HeadingAwareChunker / chunk_page locals (src/ingester/chunker.py)
    cfg,                 \* target_tokens, overlap_tokens, min_chunk_tokens
    page,                \* the DocumentPage being chunked
    heading_sections,    \* sections the loop of chunk_page iterates over
    secNo,               \* position of the loop in heading_sections
    current_chunk_text,
    current_chunk_html,
    current_offset,
    chunk_index,
    chunks,              \* chunks emitted so far for the current page
    chunker_anchor_map,  \* HeadingAwareChunker.anchor_map
    cpc,                 \* position inside chunk_page
    \* ---- CHMIngestionPipeline.ingest_source locals (src/ingester/ingest.py)
    pageNo,              \* number of pages already chunked
    all_chunks,
    ipc,                 \* position inside ingest_source / build_index
    runs,                \* ingestion runs started so far
    idx,                 \* the pipeline's HybridIndexer
    \* ---- the index directories data/index/<source>/ (src/ingester/indexer.py)
    dirs,                \* sources whose index directory exists
    disk,                \* source -> artifact -> <<>> (absent) or <<content>>
    disk_before,         \* history: disk when the current build_index began
    \* ---- a reader process that loads the index (src/tests/test_queries.py)
    ldr,                 \* its HybridIndexer
    ldr_status,          \* "none", "new", "loaded" or the error load_indices raised
    hash_seed,           \* process -> iteration order of a set of chunk ids
    response,            \* what the last search() call returned or raised
    \* ---- LinkGraphBuilder.build_graph (src/ingester/link_graph.py)
    toc_nodes,           \* the TOC forest handed to build_graph
    pages,               \* the DocumentPage list handed to build_graph
    graph,               \* LinkGraphBuilder.graph
    path_to_id,          \* LinkGraphBuilder.path_to_id
    calls,               \* pending _process_toc_node calls, next one first
    gpc,                 \* position inside build_graph
    seeNo,               \* position of the page loop of _add_see_also_relationships
    graph_json,          \* source -> graph.json: <<>> (absent) or <<content>>
    \* ---- AutoCADMCPServer (src/server/mcp_server.py)
    srv_indexer,         \* self.indexer: <<>> for None, else <<indexer>>
    srv_link_graph,      \* self.link_graph: <<>> for None, else <<builder>>
    srv_response,        \* the reply to the last tool call
    \* ---- callers of the library functions
    search_args,         \* the arguments of the last HybridIndexer.search call
    held,                \* the record a caller got from get_neighbors
    queries              \* thread -> the search() call that thread is in

chunkVars  == <<cfg, page, heading_sections, secNo, current_chunk_text,
                current_chunk_html, current_offset, chunk_index, chunks,
                chunker_anchor_map, cpc>>
ingestVars == <<pageNo, all_chunks, ipc>>
indexVars  == <<runs, idx, dirs, disk, disk_before>>
readerVars == <<ldr, ldr_status, hash_seed, response>>
graphVars  == <<toc_nodes, pages, graph, path_to_id, calls, gpc, seeNo, graph_json>>
serverVars == <<srv_indexer, srv_link_graph, srv_response>>
callerVars == <<search_args, held, queries>>
vars       == <<chunkVars, ingestVars, indexVars, readerVars, graphVars,
                   serverVars, callerVars>>

---------------------------------------------------------------------------
(* Bounds of the model *)

\* pages chunked by one ingestion run
MaxPages == 2
\* elements (h1-h6, p, div, li) that find_all returns for one page
MaxElems == 3
\* chunks an ingestion run hands to build_index in the indexer specification
MaxChunks == 2
\* ingestion runs (rebuilds) in the indexer specification
MaxRuns == 2
\* largest k of a search call
MaxK == 2

(* Program constants *)

\* _estimate_tokens: len(text) // 4
CharsPerToken == 4
\* _get_overlap_text: overlap_tokens // 4 words
OverlapDivisor == 4
\* _reciprocal_rank_fusion: k = 60
RrfK == 60

---------------------------------------------------------------------------
(* Python string helpers *)

SP == " "

RECURSIVE SplitAcc(_, _, _, _)
SplitAcc(t, i, cur, acc) ==
    IF i > Len(t)
    THEN (IF cur = <<>> THEN acc ELSE Append(acc, cur))
    ELSE IF t[i] = SP
         THEN SplitAcc(t, i + 1, <<>>, IF cur = <<>> THEN acc ELSE Append(acc, cur))
         ELSE SplitAcc(t, i + 1, Append(cur, t[i]), acc)

\* str.split(): the maximal runs of non-whitespace characters
Split(t) == SplitAcc(t, 1, <<>>, <<>>)

RECURSIVE JoinWords(_)
\* " ".join(words)
JoinWords(ws) ==
    IF ws = <<>> THEN <<>>
    ELSE IF Len(ws) = 1 THEN ws[1]
    ELSE ws[1] \o <<SP>> \o JoinWords(Tail(ws))

\* seq[s:] for s <= 0: the whole sequence for s = 0, else its last -s items
PySliceFrom(seq, s) ==
    IF s = 0 \/ -s >= Len(seq) THEN seq
    ELSE SubSeq(seq, Len(seq) + s + 1, Len(seq))

---------------------------------------------------------------------------
(* HeadingAwareChunker *)

EstimateTokens(text) == Len(text) \div CharsPerToken

\* words[-self.overlap_tokens//4:] binds as (-overlap_tokens) // 4
GetOverlapText(text, overlap_tokens) ==
    LET words == Split(text)
        overlap_words ==
            IF Len(words) > overlap_tokens \div OverlapDivisor
            THEN PySliceFrom(words, (-overlap_tokens) \div OverlapDivisor)
            ELSE <<>>
    IN  JoinWords(overlap_words)

IsHeading(e) == e.name = "h"

RECURSIVE ExtractAcc(_, _, _, _)
\* current is <<>> for None and <<section>> otherwise
ExtractAcc(elements, i, current, sections) ==
    IF i > Len(elements)
    THEN sections \o current
    ELSE LET e == elements[i] IN
         IF IsHeading(e)
         THEN ExtractAcc(elements, i + 1,
                         << [heading |-> e.text, text |-> e.text, html |-> <<e>>] >>,
                         sections \o current)
         ELSE IF current # <<>> /\ e.text # <<>>
              THEN ExtractAcc(elements, i + 1,
                              << [current[1] EXCEPT
                                     !.text = @ \o <<SP>> \o e.text,
                                     !.html = Append(@, e)] >>,
                              sections)
              ELSE ExtractAcc(elements, i + 1, current, sections)

ExtractHeadingSections(elements) == ExtractAcc(elements, 1, <<>>, <<>>)

RECURSIVE ParagraphSections(_)
\* the paragraphs _chunk_by_paragraphs iterates over: empty ones are skipped
ParagraphSections(elements) ==
    IF elements = <<>> THEN <<>>
    ELSE LET e == Head(elements) IN
         (IF ~IsHeading(e) /\ e.text # <<>>
          THEN << [heading |-> <<>>, text |-> e.text, html |-> <<e>>] >>
          ELSE <<>>) \o ParagraphSections(Tail(elements))

\* the ids and names found in a chunk's accumulated html
ExtractChunkAnchors(html) == UNION { html[i].anchors : i \in DOMAIN html }

ChunkId(page_id, index) == <<page_id, index>>
AnchorKey(page_id, anchor) == <<page_id, anchor>>

CreateChunk(p, index, text, html, start_offset, end_offset) ==
    [ id            |-> ChunkId(p.id, index),
      page_id       |-> p.id,
      content       |-> text,
      html_content  |-> html,
      chunk_index   |-> index,
      total_chunks  |-> 0,
      start_offset  |-> start_offset,
      end_offset    |-> end_offset,
      anchors       |-> ExtractChunkAnchors(html) ]

\* the anchor_map writes of _create_chunk
RecordAnchors(am, chunk) ==
    LET keys == { AnchorKey(chunk.page_id, a) : a \in chunk.anchors }
    IN  [ k \in DOMAIN am \cup keys |->
            IF k \in keys
            THEN [ chunk_id     |-> chunk.id,
                   start_offset |-> chunk.start_offset,
                   end_offset   |-> chunk.end_offset ]
            ELSE am[k] ]

\* the test that finalizes the current chunk before a section is added
WouldExceed(buffer, section_text) ==
    /\ buffer # <<>>
    /\ EstimateTokens(buffer \o <<SP>> \o section_text) > cfg.target_tokens

MeetsMin(buffer) == EstimateTokens(buffer) >= cfg.min_chunk_tokens

SeedWithOverlap(overlap_text, section_text) ==
    IF overlap_text # <<>> THEN overlap_text \o <<SP>> \o section_text
    ELSE section_text

\* mutant: the separator between sections is left out
AppendSectionNoSpace(buffer, section_text) == buffer \o section_text

AppendSection(buffer, section_text) == buffer \o <<SP>> \o section_text

EmitCurrent ==
    CreateChunk(page, chunk_index, current_chunk_text, current_chunk_html,
                current_offset, current_offset + Len(current_chunk_text))

---------------------------------------------------------------------------
(* Inputs *)

Hdr(text, anchors) == [name |-> "h", text |-> text, anchors |-> anchors]
Blk(text, anchors) == [name |-> "b", text |-> text, anchors |-> anchors]

\* "ab cd"
T5  == <<"a","b",SP,"c","d">>
\* "ef gh ij kl"
T11 == <<"e","f",SP,"g","h",SP,"i","j",SP,"k","l">>
\* "qr st uv wx yz"
T14 == <<"q","r",SP,"s","t",SP,"u","v",SP,"w","x",SP,"y","z">>
\* "mn  op": get_text().strip() keeps inner whitespace runs
T6  == <<"m","n",SP,SP,"o","p">>

ElementPool ==
    { Hdr(T5, {}), Hdr(T11, {"x"}), Hdr(T14, {}), Blk(T6, {"x"}), Blk(<<>>, {}) }

RECURSIVE SeqsUpTo(_, _)
SeqsUpTo(S, n) ==
    IF n = 0 THEN { <<>> }
    ELSE LET shorter == SeqsUpTo(S, n - 1)
         IN  shorter \cup { Append(s, x) : s \in shorter, x \in S }

PageInputs == SeqsUpTo(ElementPool, MaxElems)

Configs ==
    { [target_tokens |-> 4, overlap_tokens |-> 4, min_chunk_tokens |-> 3],
      [target_tokens |-> 3, overlap_tokens |-> 6, min_chunk_tokens |-> 1],
      [target_tokens |-> 3, overlap_tokens |-> 0, min_chunk_tokens |-> 0] }

NoPage == [id |-> 0, elements |-> <<>>]
EmptyMap == [k \in {} |-> 0]

---------------------------------------------------------------------------
(* chunk_page, one loop iteration per step *)

\* ingest_source calls chunk_page(page) for the next page; chunk_page parses
\* it and falls back to paragraphs when it has no heading
ChunkPageStart ==
    /\ ipc = "chunking" /\ cpc = "idle" /\ pageNo < MaxPages
    /\ \E elements \in PageInputs :
         /\ page' = [id |-> pageNo + 1, elements |-> elements]
         /\ heading_sections' =
                IF ExtractHeadingSections(elements) # <<>>
                THEN ExtractHeadingSections(elements)
                ELSE ParagraphSections(elements)
    /\ secNo' = 1
    /\ current_chunk_text' = <<>>
    /\ current_chunk_html' = <<>>
    /\ current_offset' = 0
    /\ chunk_index' = 0
    /\ chunks' = <<>>
    /\ cpc' = "loop"
    /\ UNCHANGED <<cfg, chunker_anchor_map, ingestVars, indexVars, readerVars, graphVars, callerVars,
                   serverVars>>

\* one iteration of "for section in heading_sections"
SectionStep ==
    /\ cpc = "loop" /\ secNo <= Len(heading_sections)
    /\ LET section == heading_sections[secNo]
           overlap_text == GetOverlapText(current_chunk_text, cfg.overlap_tokens)
           new_text == SeedWithOverlap(overlap_text, section.text)
       IN  IF WouldExceed(current_chunk_text, section.text)
           THEN /\ IF MeetsMin(current_chunk_text)
                   THEN /\ chunks' = Append(chunks, EmitCurrent)
                        /\ chunker_anchor_map' =
                               RecordAnchors(chunker_anchor_map, EmitCurrent)
                        /\ chunk_index' = chunk_index + 1
                   ELSE UNCHANGED <<chunks, chunker_anchor_map, chunk_index>>
                /\ current_chunk_text' = new_text
                /\ current_chunk_html' = section.html
                /\ current_offset' = current_offset + Len(new_text)
                                       - Len(overlap_text) - Len(section.text)
           ELSE /\ IF current_chunk_text # <<>>
                   THEN /\ current_chunk_text' =
                               AppendSection(current_chunk_text, section.text)
                        /\ current_chunk_html' = current_chunk_html \o section.html
                   ELSE /\ current_chunk_text' = section.text
                        /\ current_chunk_html' = section.html
                /\ UNCHANGED <<chunks, chunker_anchor_map, chunk_index,
                               current_offset>>
    /\ secNo' = secNo + 1
    /\ UNCHANGED <<cfg, page, heading_sections, cpc, ingestVars, indexVars,
                   readerVars, graphVars, callerVars,
                   serverVars>>

\* "Add final chunk" and return chunks
FinalChunk ==
    /\ cpc = "loop" /\ secNo > Len(heading_sections)
    /\ IF current_chunk_text # <<>> /\ MeetsMin(current_chunk_text)
       THEN /\ chunks' = Append(chunks, EmitCurrent)
            /\ chunker_anchor_map' = RecordAnchors(chunker_anchor_map, EmitCurrent)
       ELSE UNCHANGED <<chunks, chunker_anchor_map>>
    /\ cpc' = "returned"
    /\ UNCHANGED <<cfg, page, heading_sections, secNo, current_chunk_text,
                   current_chunk_html, current_offset, chunk_index, ingestVars,
                   indexVars, readerVars, graphVars, callerVars,
                   serverVars>>

---------------------------------------------------------------------------
(* ingest_source *)

\* mutant: the count is taken before the last chunk is appended
PatchTotalChunksShort(cs) ==
    [ i \in DOMAIN cs |-> [cs[i] EXCEPT !.total_chunks = Len(cs) - 1] ]

\* for chunk in chunks: chunk.total_chunks = len(chunks)
PatchTotalChunks(cs) ==
    [ i \in DOMAIN cs |-> [cs[i] EXCEPT !.total_chunks = Len(cs)] ]

IngestCollect ==
    /\ ipc = "chunking" /\ cpc = "returned"
    /\ all_chunks' = all_chunks \o PatchTotalChunks(chunks)
    /\ pageNo' = pageNo + 1
    /\ cpc' = "idle"
    /\ UNCHANGED <<cfg, page, heading_sections, secNo, current_chunk_text,
                   current_chunk_html, current_offset, chunk_index, chunks,
                   chunker_anchor_map, ipc, indexVars, readerVars, graphVars, callerVars,
                   serverVars>>


---------------------------------------------------------------------------
(* HybridIndexer: in-memory structures *)

\* SourceType values used by the model (two of the enum's values)
Sources == {"arxmgd", "arxdev"}
\* SourceType.ARXMGD, the pipeline's default source
Source == "arxmgd"

Artifacts == {"faiss.index", "bm25.pkl", "metadata.json", "anchor_map.json"}
EmptyDir == [a \in Artifacts |-> <<>>]

\* HybridIndexer.__init__; None is <<>>, an object x is <<x>>
NewIndexer(source) ==
    [ source         |-> source,
      faiss_index    |-> <<>>,
      bm25_index     |-> <<>>,
      chunk_metadata |-> EmptyMap,
      anchor_map     |-> EmptyMap ]

Texts(cs) == [i \in DOMAIN cs |-> cs[i].content]

\* one vector per text, in order; the embedder is deterministic, so the
\* text stands for its embedding
BuildFaissIndex(texts) == [vectors |-> texts]

\* BM25Okapi over text.lower().split() (the model's alphabet is lower case)
BuildBm25Index(texts) == [corpus |-> [i \in DOMAIN texts |-> Split(texts[i])]]

\* chunk_metadata[chunk.id] = {chunk, index}: a later chunk with the same id
\* overwrites an earlier one
StoreMetadata(cs) ==
    LET ids == { cs[i].id : i \in DOMAIN cs }
        last(id) == CHOOSE i \in DOMAIN cs :
                       /\ cs[i].id = id
                       /\ \A j \in DOMAIN cs : cs[j].id = id => j <= i
    IN  [ id \in ids |-> [chunk |-> cs[last(id)], index |-> last(id) - 1] ]

\* build_index up to _store_metadata, for a non-empty chunk list
\* a build_index that stores the anchor map before it looks at the chunks
BuildIndexCallStoringFirst(ix, cs, am) ==
    LET ix1 == [ix EXCEPT !.anchor_map = IF DOMAIN am # {} THEN am ELSE @]
    IN  IF cs = <<>>
        THEN [ix |-> ix1, raised |-> "No chunks provided for indexing"]
        ELSE [ix |-> [ix1 EXCEPT !.faiss_index    = << BuildFaissIndex(Texts(cs)) >>,
                                 !.bm25_index     = << BuildBm25Index(Texts(cs)) >>,
                                 !.chunk_metadata = StoreMetadata(cs)],
              raised |-> ""]

BuildInMemory(ix, cs, am) ==
    [ ix EXCEPT !.anchor_map     = IF DOMAIN am # {} THEN am ELSE @,
                !.faiss_index    = << BuildFaissIndex(Texts(cs)) >>,
                !.bm25_index     = << BuildBm25Index(Texts(cs)) >>,
                !.chunk_metadata = StoreMetadata(cs) ]

\* build_index(chunks, anchor_map) up to _save_indices: the indexer
\* afterwards and what was raised
BuildIndexCall(ix, cs, am) ==
    IF cs = <<>>
    THEN [ix |-> ix, raised |-> "No chunks provided for indexing"]
    ELSE [ix |-> BuildInMemory(ix, cs, am), raised |-> ""]

---------------------------------------------------------------------------
(* HybridIndexer: persistence *)

\* faiss.write_index / faiss.read_index
WriteFaiss(index) == [format |-> "faiss", data |-> index]
ReadFaiss(file) == file.data
\* pickle.dump / pickle.load
PickleDump(obj) == [format |-> "pickle", data |-> obj]
PickleLoad(file) == file.data
\* json.dump of {chunk_id: {chunk: chunk.model_dump(), index}} and the
\* DocumentChunk(**data['chunk']) of load_indices
MetadataDump(meta) ==
    [format |-> "json",
     data   |-> [id \in DOMAIN meta |->
                   [chunk |-> meta[id].chunk, index |-> meta[id].index]]]
MetadataLoad(file) ==
    [id \in DOMAIN file.data |->
        [chunk |-> file.data[id].chunk, index |-> file.data[id].index]]
\* json.dump / json.load of the anchor map
JsonDump(obj) == [format |-> "json", data |-> obj]
JsonLoad(file) == file.data

\* the directory content a completed _save_indices of ix leaves
ArtifactsOf(ix) ==
    [ a \in Artifacts |->
        IF a = "faiss.index" THEN << WriteFaiss(ix.faiss_index[1]) >>
        ELSE IF a = "bm25.pkl" THEN << PickleDump(ix.bm25_index[1]) >>
        ELSE IF a = "metadata.json" THEN << MetadataDump(ix.chunk_metadata) >>
        ELSE << JsonDump(ix.anchor_map) >> ]

\* load_indices: the indexer after the call and the error it raised ("" for
\* none); fields assigned before a raise stay assigned
LoadIndices(ix, dir) ==
    IF dir["faiss.index"] = <<>>
    THEN [ix |-> ix, raised |-> "FAISS index not found"]
    ELSE
    LET ix1 == [ix EXCEPT !.faiss_index = << ReadFaiss(dir["faiss.index"][1]) >>]
    IN  IF dir["bm25.pkl"] = <<>>
        THEN [ix |-> ix1, raised |-> "BM25 index not found"]
        ELSE
        LET ix2 == [ix1 EXCEPT !.bm25_index = << PickleLoad(dir["bm25.pkl"][1]) >>]
        IN  IF dir["metadata.json"] = <<>>
            THEN [ix |-> ix2, raised |-> "Metadata not found"]
            ELSE
            LET ix3 == [ix2 EXCEPT !.chunk_metadata =
                                       MetadataLoad(dir["metadata.json"][1])]
            IN  [ix |-> IF dir["anchor_map.json"] # <<>>
                        THEN [ix3 EXCEPT !.anchor_map =
                                             JsonLoad(dir["anchor_map.json"][1])]
                        ELSE ix3,
                 raised |-> ""]

---------------------------------------------------------------------------
(* HybridIndexer: search *)

\* a slice that keeps the whole list
TakeAll(seq, n) == seq

Take(seq, n) == SubSeq(seq, 1, IF n < Len(seq) THEN n ELSE Len(seq))

\* "for chunk_id, data in chunk_metadata.items(): if data['index'] == idx":
\* an index without an entry contributes nothing
ToChunkIds(meta, idxs) ==
    LET hit(i) == { id \in DOMAIN meta : meta[id].index = i }
        found  == SelectSeq(idxs, LAMBDA i : hit(i) # {})
    IN  [ n \in DOMAIN found |-> CHOOSE id \in hit(found[n]) : TRUE ]

\* A query q stands for what the two rankers make of it: q.dense lists the
\* vector slots by increasing L2 distance to the query's embedding, q.lex
\* the corpus slots by decreasing BM25 score.  The raw scores are dropped
\* here since the fusion reads only the positions.
FaissSearch(ix, q, k) ==
    LET ntotal  == Len(ix.faiss_index[1].vectors)
        nearest == Take(SelectSeq(q.dense, LAMBDA i : i < ntotal), k)
        kept    == SelectSeq(nearest,
                             LAMBDA i : i < Cardinality(DOMAIN ix.chunk_metadata))
    IN  ToChunkIds(ix.chunk_metadata, kept)

Bm25Search(ix, q, k) ==
    LET n   == Len(ix.bm25_index[1].corpus)
        top == Take(SelectSeq(q.lex, LAMBDA i : i < n), k)
    IN  ToChunkIds(ix.chunk_metadata, top)

\* {chunk_id: rank for rank, (chunk_id, _) in enumerate(results)}.get(id, k)
RankOf(results, id, default) ==
    LET at == { i \in DOMAIN results : results[i] = id }
    IN  IF at = {} THEN default
        ELSE (CHOOSE i \in at : \A j \in at : j <= i) - 1

\* 1.0 / (k + faiss_rank + 1) + 1.0 / (k + bm25_rank + 1) as the fraction
\* <<numerator, denominator>>
RrfScore(faiss_rank, bm25_rank) ==
    LET x == RrfK + faiss_rank + 1
        y == RrfK + bm25_rank + 1
    IN  <<x + y, x * y>>

\* an ascending sort of the fused scores
ScoreGreaterReversed(a, b) == a[1] * b[2] < b[1] * a[2]

ScoreGreater(a, b) == a[1] * b[2] > b[1] * a[2]

\* sorted(items, key=score, reverse=True): equal scores keep their order,
\* so an item goes behind the items of greater score and the earlier items
\* of equal score
StableSortDesc(items) ==
    LET before(i) == { j \in DOMAIN items :
                         \/ ScoreGreater(items[j].score, items[i].score)
                         \/ /\ ~ScoreGreater(items[i].score, items[j].score)
                            /\ j < i }
        place == [ i \in DOMAIN items |-> Cardinality(before(i)) + 1 ] \o <<>>
    IN  [ p \in DOMAIN items |-> items[CHOOSE i \in DOMAIN items : place[i] = p] ]
            \o <<>>

\* the order in which a set of chunk-id strings is iterated: it follows the
\* strings' hashes, which differ from process to process; seed lists the
\* ids in the order the process's hashing yields
SetIterOrder(S, seed) == SelectSeq(seed, LAMBDA id : id \in S)

ReciprocalRankFusion(faiss_scores, bm25_scores, seed) ==
    LET all_chunk_ids == { faiss_scores[i] : i \in DOMAIN faiss_scores }
                         \cup { bm25_scores[i] : i \in DOMAIN bm25_scores }
        order == SetIterOrder(all_chunk_ids, seed)
        rrf_scores ==
            [ i \in DOMAIN order |->
                [ id    |-> order[i],
                  score |-> RrfScore(RankOf(faiss_scores, order[i], RrfK),
                                     RankOf(bm25_scores, order[i], RrfK)) ] ]
            \o <<>>
    IN  StableSortDesc(rrf_scores)

\* search(query, k); the snippet of a result is left out (the query text is
\* opaque to the model)
Search(ix, q, k, seed) ==
    IF ix.faiss_index = <<>> \/ ix.bm25_index = <<>>
    THEN [raised |-> "Indices not loaded", results |-> <<>>]
    ELSE LET combined == ReciprocalRankFusion(FaissSearch(ix, q, k * 2),
                                              Bm25Search(ix, q, k * 2), seed)
             top   == Take(combined, k)
             found == SelectSeq(top, LAMBDA r : r.id \in DOMAIN ix.chunk_metadata)
         IN  [raised  |-> "",
              results |-> [ i \in DOMAIN found |->
                  [ id          |-> found[i].id,
                    score       |-> found[i].score,
                    chunk_index |->
                        ix.chunk_metadata[found[i].id].chunk.chunk_index ] ] ]

GetChunkById(ix, chunk_id) ==
    IF chunk_id \in DOMAIN ix.chunk_metadata
    THEN << ix.chunk_metadata[chunk_id].chunk >>
    ELSE <<>>

GetChunkByAnchor(ix, page_id, anchor) ==
    IF AnchorKey(page_id, anchor) \in DOMAIN ix.anchor_map
    THEN GetChunkById(ix, ix.anchor_map[AnchorKey(page_id, anchor)].chunk_id)
    ELSE <<>>

---------------------------------------------------------------------------
(* Inputs of the indexer specification *)

PermSeqs(S) ==
    { p \in [1..Cardinality(S) -> S] :
        \A i \in DOMAIN p : \A j \in DOMAIN p : i # j => p[i] # p[j] }

Queries == { [dense |-> d, lex |-> l] :
                d \in PermSeqs(0..(MaxChunks - 1)), l \in PermSeqs(0..(MaxChunks - 1)) }
Ks == 1..MaxK

\* the chunk ids of the runs below, and the orders a process may iterate them in
IndexChunkIds == { ChunkId(1, i) : i \in 0..(MaxChunks - 1) }
HashSeeds == PermSeqs(IndexChunkIds)

RECURSIVE RecordAll(_, _)
RecordAll(am, cs) ==
    IF cs = <<>> THEN am ELSE RecordAll(RecordAnchors(am, Head(cs)), Tail(cs))

\* what chunking one page with the given section texts hands to build_index
RunOf(contents) ==
    LET cs == [ i \in DOMAIN contents |->
                  CreateChunk([id |-> 1], i - 1, contents[i],
                              << Hdr(contents[i],
                                     IF contents[i] = T11 THEN {"x"} ELSE {}) >>,
                              0, Len(contents[i])) ]
    IN  [chunks |-> PatchTotalChunks(cs), anchor_map |-> RecordAll(EmptyMap, cs)]

RunOutputs == { RunOf(contents) : contents \in SeqsUpTo({T5, T11}, MaxChunks) }

NoResponse == [k |-> 0, out |-> [raised |-> "", results |-> <<>>]]

\* no search call made yet
NoSearchArgs == [q |-> [dense |-> <<>>, lex |-> <<>>], k |-> 0]

\* no record obtained from get_neighbors yet
NoHeld == [page_id |-> <<>>, shared |-> FALSE, edits |-> 0, parent |-> <<>>,
           children |-> <<>>, see_also |-> <<>>]

\* threads that search one loaded index at the same time
MaxThreads == 2
Threads == 1..MaxThreads

\* a thread outside search()
IdleQuery == [pc |-> "idle", q |-> [dense |-> <<>>, lex |-> <<>>], k |-> 0,
              arg |-> <<>>,
              faiss_scores |-> <<>>, bm25_scores |-> <<>>,
              combined_scores |-> <<>>, results |-> <<>>]
NoQueries == [ t \in Threads |-> IdleQuery ]

\* no tool call answered yet
NoReply == [tool |-> "", source |-> "", text |-> "", error |-> "", items |-> <<>>]

---------------------------------------------------------------------------
(* build_index and _save_indices, one file write per step *)

SaveSteps == {"save_faiss", "save_bm25", "save_metadata", "save_anchor_map"}

\* build_index(all_chunks, anchor_map) up to the call of _save_indices
BuildIndex ==
    /\ ipc = "chunking" /\ cpc = "idle"
    /\ LET r == BuildIndexCall(idx, all_chunks, chunker_anchor_map)
       IN  /\ idx' = r.ix
           /\ IF r.raised # ""
              THEN /\ ipc' = "failed"
                   /\ UNCHANGED disk_before
              ELSE /\ disk_before' = disk
                   /\ ipc' = "save_faiss"
    /\ UNCHANGED <<chunkVars, pageNo, all_chunks, runs, dirs, disk, readerVars, graphVars, callerVars,
                   serverVars>>

WriteFile(artifact, content, next) ==
    /\ disk' = [disk EXCEPT ![idx.source][artifact] = <<content>>]
    /\ ipc' = next
    /\ UNCHANGED <<chunkVars, pageNo, all_chunks, runs, idx, dirs, disk_before,
                   readerVars, graphVars, callerVars,
                   serverVars>>

SaveFaiss ==
    /\ ipc = "save_faiss"
    /\ WriteFile("faiss.index", WriteFaiss(idx.faiss_index[1]), "save_bm25")

SaveBm25 ==
    /\ ipc = "save_bm25"
    /\ WriteFile("bm25.pkl", PickleDump(idx.bm25_index[1]), "save_metadata")

SaveMetadata ==
    /\ ipc = "save_metadata"
    /\ WriteFile("metadata.json", MetadataDump(idx.chunk_metadata),
                 "save_anchor_map")

SaveAnchorMap ==
    /\ ipc = "save_anchor_map"
    /\ WriteFile("anchor_map.json", JsonDump(idx.anchor_map), "done")

\* the ingestion process is interrupted while it saves
Kill ==
    /\ ipc \in SaveSteps
    /\ ipc' = "killed"
    /\ UNCHANGED <<chunkVars, pageNo, all_chunks, indexVars, readerVars, graphVars, callerVars,
                   serverVars>>

\* a new ingestion run: a new process with a new chunker and indexer; its
\* chunking phase is summarised by its outcome
RunStart ==
    /\ ipc \in {"none", "done", "failed", "killed"} /\ runs < MaxRuns
    /\ \E r \in RunOutputs :
          /\ all_chunks' = r.chunks
          /\ chunker_anchor_map' = r.anchor_map
    /\ idx' = NewIndexer(Source)
    /\ dirs' = dirs \cup {Source}
    /\ runs' = runs + 1
    /\ ipc' = "chunking"
    /\ UNCHANGED <<cfg, page, heading_sections, secNo, current_chunk_text,
                   current_chunk_html, current_offset, chunk_index, chunks, cpc,
                   pageNo, disk, disk_before, readerVars, graphVars, callerVars,
                   serverVars>>

---------------------------------------------------------------------------
(* A reader: HybridIndexer(source), load_indices(), search() *)

ReaderNew ==
    /\ ldr' = NewIndexer(Source)
    /\ ldr_status' = "new"
    /\ dirs' = dirs \cup {Source}
    /\ UNCHANGED <<chunkVars, ingestVars, runs, idx, disk, disk_before,
                   hash_seed, response, graphVars, callerVars, serverVars>>

ReaderLoad ==
    /\ ldr_status # "none"
    /\ LET r == LoadIndices(ldr, disk[ldr.source])
       IN  /\ ldr' = r.ix
           /\ ldr_status' = IF r.raised = "" THEN "loaded" ELSE r.raised
    /\ UNCHANGED <<chunkVars, ingestVars, indexVars, hash_seed, response,
                   graphVars, callerVars, serverVars>>

ReaderSearch ==
    /\ ldr_status # "none"
    /\ \E q \in Queries : \E k \in Ks :
          response' = [k |-> k, out |-> Search(ldr, q, k, hash_seed.reader)]
    /\ UNCHANGED <<chunkVars, ingestVars, indexVars, ldr, ldr_status, hash_seed,
                   graphVars, callerVars, serverVars>>

\* the holder of the indexer calls build_index([], anchor_map)
ReaderBuildEmpty ==
    /\ ldr_status # "none"
    /\ \E am \in { r.anchor_map : r \in RunOutputs } :
          LET b == BuildIndexCall(ldr, <<>>, am)
          IN  /\ ldr' = b.ix
              /\ response' = [k |-> 0, out |-> [raised |-> b.raised, results |-> <<>>]]
    /\ UNCHANGED <<chunkVars, ingestVars, indexVars, ldr_status, hash_seed,
                   graphVars, callerVars, serverVars>>

IndexerInit ==
    /\ cfg = CHOOSE c \in Configs : c.min_chunk_tokens = 0
    /\ page = NoPage
    /\ heading_sections = <<>>
    /\ secNo = 1
    /\ current_chunk_text = <<>>
    /\ current_chunk_html = <<>>
    /\ current_offset = 0
    /\ chunk_index = 0
    /\ chunks = <<>>
    /\ chunker_anchor_map = EmptyMap
    /\ cpc = "idle"
    /\ pageNo = 0
    /\ all_chunks = <<>>
    /\ ipc = "none"
    /\ runs = 0
    /\ dirs = {}
    /\ hash_seed \in [{"pipeline", "reader"} -> HashSeeds]
    /\ idx = NewIndexer(Source)
    /\ disk = [s \in Sources |-> EmptyDir]
    /\ disk_before = disk
    /\ ldr = NewIndexer(Source)
    /\ ldr_status = "none"
    /\ response = NoResponse
    /\ toc_nodes = <<>>
    /\ pages = <<>>
    /\ graph = EmptyMap
    /\ path_to_id = EmptyMap
    /\ calls = <<>>
    /\ gpc = "none"
    /\ seeNo = 1
    /\ graph_json = [s \in Sources |-> <<>>]
    /\ srv_indexer = <<>>
    /\ srv_link_graph = <<>>
    /\ srv_response = NoReply
    /\ search_args = NoSearchArgs
    /\ held = NoHeld
    /\ queries = NoQueries

IndexerNext ==
    \/ RunStart
    \/ BuildIndex
    \/ SaveFaiss
    \/ SaveBm25
    \/ SaveMetadata
    \/ SaveAnchorMap
    \/ Kill
    \/ ReaderNew
    \/ ReaderLoad
    \/ ReaderSearch
    \/ ReaderBuildEmpty

SpecIndex == IndexerInit /\ [][IndexerNext]_vars

---------------------------------------------------------------------------
(* One ingestion run: chunk the pages, build the index, save it *)

IngestNext ==
    \/ ChunkPageStart
    \/ SectionStep
    \/ FinalChunk
    \/ IngestCollect
    \/ BuildIndex
    \/ SaveFaiss
    \/ SaveBm25
    \/ SaveMetadata
    \/ SaveAnchorMap

IngestRunInit ==
    /\ cfg \in Configs
    /\ page = NoPage
    /\ heading_sections = <<>>
    /\ secNo = 1
    /\ current_chunk_text = <<>>
    /\ current_chunk_html = <<>>
    /\ current_offset = 0
    /\ chunk_index = 0
    /\ chunks = <<>>
    /\ chunker_anchor_map = EmptyMap
    /\ cpc = "idle"
    /\ pageNo = 0
    /\ all_chunks = <<>>
    /\ ipc = "chunking"
    /\ runs = 1
    /\ dirs = {Source}
    /\ hash_seed = [p \in {"pipeline", "reader"} |-> <<>>]
    /\ idx = NewIndexer(Source)
    /\ disk = [s \in Sources |-> EmptyDir]
    /\ disk_before = disk
    /\ ldr = NewIndexer(Source)
    /\ ldr_status = "none"
    /\ response = NoResponse
    /\ toc_nodes = <<>>
    /\ pages = <<>>
    /\ graph = EmptyMap
    /\ path_to_id = EmptyMap
    /\ calls = <<>>
    /\ gpc = "none"
    /\ seeNo = 1
    /\ graph_json = [s \in Sources |-> <<>>]
    /\ srv_indexer = <<>>
    /\ srv_link_graph = <<>>
    /\ srv_response = NoReply
    /\ search_args = NoSearchArgs
    /\ held = NoHeld
    /\ queries = NoQueries

SpecIngest == IngestRunInit /\ [][IngestNext]_vars

---------------------------------------------------------------------------
(* Paths and page ids *)

\* A path is the sequence of its tokens: directory and file names, "/", "_",
\* ".." and a final ".html" or ".htm"; the empty string is <<>>.
SL == "/"
US == "_"
Extensions == <<".html", ".htm">>

RECURSIVE CleanPath(_)
\* str(relative_path).replace('/', '_').replace('\\', '_').replace('.', '_')
CleanPath(path) ==
    IF path = <<>> THEN <<>>
    ELSE LET t == Head(path) IN
         (IF t = SL THEN <<US>>
          ELSE IF t = ".html" THEN <<US, "html">>
          ELSE IF t = ".htm" THEN <<US, "htm">>
          ELSE <<t>>) \o CleanPath(Tail(path))

\* TopicParser._generate_page_id: f"{source}_{clean_path}"
GeneratePageId(source, path) == <<source, US>> \o CleanPath(path)

\* Path(p).parent; <<>> stands for "."
ParentDir(p) ==
    LET slashes == { i \in DOMAIN p : p[i] = SL }
    IN  IF slashes = {} THEN <<>>
        ELSE SubSeq(p, 1, (CHOOSE i \in slashes : \A j \in slashes : j <= i) - 1)

\* str(dir / rel): ".." components are kept as they are
JoinPath(dir, rel) == IF dir = <<>> THEN rel ELSE dir \o <<SL>> \o rel

EndsWith(p, ext) == p # <<>> /\ p[Len(p)] = ext

InSeq(x, seq) == \E i \in DOMAIN seq : seq[i] = x

---------------------------------------------------------------------------
(* LinkGraphBuilder *)

NewEntry == [parent |-> <<>>, children |-> <<>>, see_also |-> <<>>]

\* the first loop of build_graph: a later page with the same path or id
\* overwrites the earlier one's entry
InitialPathToId(ps) ==
    LET paths == { ps[i].path : i \in DOMAIN ps }
        last(path) == CHOOSE i \in DOMAIN ps :
                         /\ ps[i].path = path
                         /\ \A j \in DOMAIN ps : ps[j].path = path => j <= i
    IN  [ path \in paths |-> ps[last(path)].id ]

InitialGraph(ps) == [ id \in { ps[i].id : i \in DOMAIN ps } |-> NewEntry ]

\* "Set parent relationship" of _process_toc_node
SetParent(g, page_id, parent_id) ==
    LET g1 == [g EXCEPT ![page_id].parent = <<parent_id>>]
    IN  IF ~InSeq(page_id, g1[parent_id].children)
        THEN [g1 EXCEPT ![parent_id].children = Append(@, page_id)]
        ELSE g1

RECURSIVE TryExtensions(_, _, _, _)
\* "Try with different extensions"
TryExtensions(p2i, link_path, current_dir, i) ==
    IF i > Len(Extensions) THEN <<>>
    ELSE LET ext == Extensions[i]
             test_path == Append(link_path, ext)
         IN  IF ~EndsWith(link_path, ext) /\ test_path \in DOMAIN p2i
             THEN << p2i[test_path] >>
             ELSE IF /\ ~EndsWith(link_path, ext)
                     /\ JoinPath(current_dir, test_path) \in DOMAIN p2i
                  THEN << p2i[JoinPath(current_dir, test_path)] >>
                  ELSE TryExtensions(p2i, link_path, current_dir, i + 1)

\* a resolution that stops after the direct path match
ResolveLinkPathExactOnly(p2i, link_path, current_path) ==
    IF link_path \in DOMAIN p2i THEN << p2i[link_path] >> ELSE <<>>

\* _resolve_link_path: <<>> for None, <<id>> otherwise
ResolveLinkPath(p2i, link_path, current_path) ==
    LET current_dir == ParentDir(current_path)
        resolved == JoinPath(current_dir, link_path)
    IN  IF link_path \in DOMAIN p2i THEN << p2i[link_path] >>
        ELSE IF resolved \in DOMAIN p2i THEN << p2i[resolved] >>
        ELSE TryExtensions(p2i, link_path, current_dir, 1)

RECURSIVE SeeAlsoOfKeepSelf(_, _, _, _)
\* the inner loop without the comparison of the target with the page itself
SeeAlsoOfKeepSelf(p2i, pg, links, acc) ==
    IF links = <<>> THEN acc
    ELSE LET target_id == ResolveLinkPath(p2i, Head(links), pg.path)
         IN  SeeAlsoOfKeepSelf(p2i, pg, Tail(links),
                               IF target_id # <<>> /\ ~InSeq(target_id[1], acc)
                               THEN Append(acc, target_id[1])
                               ELSE acc)

RECURSIVE SeeAlsoOf(_, _, _, _)
\* the inner loop of _add_see_also_relationships for one page
SeeAlsoOf(p2i, pg, links, acc) ==
    IF links = <<>> THEN acc
    ELSE LET target_id == ResolveLinkPath(p2i, Head(links), pg.path)
         IN  SeeAlsoOf(p2i, pg, Tail(links),
                       IF /\ target_id # <<>>
                          /\ target_id[1] # pg.id
                          /\ ~InSeq(target_id[1], acc)
                       THEN Append(acc, target_id[1])
                       ELSE acc)

\* get_neighbors(page_id)
GetNeighbors(g, page_id) ==
    IF page_id \notin DOMAIN g THEN NewEntry ELSE g[page_id]

---------------------------------------------------------------------------
(* Inputs of the link graph specification *)

\* pages handed to one build_graph call
MaxGraphPages == 3
\* outlinks of one page
MaxLinks == 1

\* "a.html", "d/b.htm", "d/c.html"
PathA == <<"a", ".html">>
PathB == <<"d", SL, "b", ".htm">>
PathC == <<"d", SL, "c", ".html">>
\* a TOC entry whose file was not extracted
PathMissing == <<"zz", ".html">>

PagePaths == {PathA, PathB, PathC}
\* "d_c.html", a file beside the directory "d"
PathFlat == <<"d", US, "c", ".html">>

\* "a.html", "c.html", "b", "../a.html"
LinkPool == { PathA, <<"c", ".html">>, <<"b">>, <<"..", SL, "a", ".html">> }

\* the "See Also" links of one page: up to MaxLinks of the pool, or a link
\* to no page followed by one to a page
LinkLists ==
    SeqsUpTo(LinkPool, MaxLinks) \cup { << <<"..", SL, "a", ".html">>, <<"b">> >> }

DocumentPage(path, see_also) ==
    [id |-> GeneratePageId(Source, path), path |-> path, see_also |-> see_also]

\* parse_all_topics yields one page per extracted file
GraphPageInputs ==
    { ps \in SeqsUpTo({ DocumentPage(path, links) :
                           path \in PagePaths, links \in LinkLists }
                         \cup { DocumentPage(PathFlat, <<>>) },
                      MaxGraphPages) :
        \A i \in DOMAIN ps : \A j \in DOMAIN ps : i # j => ps[i].path # ps[j].path }

\* the most children of a node and the most levels of the TOC forests
TocWidth == 2
TocDepth == 3

TOCTreeNode(path, children) == [path |-> path, children |-> children]

TocInputs ==
    { <<>>,
      << TOCTreeNode(PathA, << TOCTreeNode(PathB, <<>>), TOCTreeNode(PathC, <<>>) >>) >>,
      << TOCTreeNode(PathA, << TOCTreeNode(PathC, <<>>) >>),
         TOCTreeNode(PathB, << TOCTreeNode(PathC, <<>>) >>) >>,
      << TOCTreeNode(PathA,
            << TOCTreeNode(<<>>, << TOCTreeNode(PathB, <<>>) >>),
               TOCTreeNode(PathMissing, << TOCTreeNode(PathC, <<>>) >>) >>) >>,
      << TOCTreeNode(PathA, << TOCTreeNode(PathA, <<>>) >>) >>,
      << TOCTreeNode(PathA, << TOCTreeNode(PathB, <<>>) >>),
         TOCTreeNode(PathB, <<>>) >>,
      << TOCTreeNode(PathA, << TOCTreeNode(<<>>, << TOCTreeNode(PathC, <<>>) >>) >>),
         TOCTreeNode(PathB, << TOCTreeNode(PathC, <<>>) >>) >> }

---------------------------------------------------------------------------
(* build_graph, one _process_toc_node call or one page per step *)

\* "Initialize graph" and "Build path to ID mapping", then the calls
\* _add_toc_relationships makes for the root nodes
BuildGraphStart ==
    /\ gpc = "start"
    /\ path_to_id' = InitialPathToId(pages)
    /\ graph' = InitialGraph(pages)
    /\ calls' = [ i \in DOMAIN toc_nodes |->
                    [node |-> toc_nodes[i], parent_id |-> <<>>] ]
    /\ gpc' = "toc"
    /\ UNCHANGED <<chunkVars, ingestVars, indexVars, readerVars, toc_nodes,
                   pages, seeNo, graph_json, serverVars, callerVars>>

\* the children of a node without a page are left without a parent
PassedParentDropping(page_id, parent_id) == page_id

\* the parent_id of the recursive calls: the node's page, or for a node
\* without a page the parent_id the node was called with
PassedParent(page_id, parent_id) ==
    IF page_id = <<>> THEN parent_id ELSE page_id

\* one call _process_toc_node(node, parent_id); the calls for its children
\* come before the remaining calls of its caller
ProcessTocNode ==
    /\ gpc = "toc" /\ calls # <<>>
    /\ LET node == Head(calls).node
           parent_id == Head(calls).parent_id
           page_id == IF node.path # <<>> /\ node.path \in DOMAIN path_to_id
                      THEN << path_to_id[node.path] >>
                      ELSE <<>>
           passed == PassedParent(page_id, parent_id)
       IN  /\ graph' = IF /\ page_id # <<>>
                          /\ parent_id # <<>>
                          /\ page_id[1] \in DOMAIN graph
                       THEN SetParent(graph, page_id[1], parent_id[1])
                       ELSE graph
           /\ calls' = [ i \in DOMAIN node.children |->
                           [node |-> node.children[i], parent_id |-> passed] ]
                       \o Tail(calls)
    /\ UNCHANGED <<chunkVars, ingestVars, indexVars, readerVars, toc_nodes,
                   pages, path_to_id, gpc, seeNo, graph_json, serverVars, callerVars>>

\* _add_toc_relationships returns, _add_see_also_relationships begins
SeeAlsoStart ==
    /\ gpc = "toc" /\ calls = <<>>
    /\ gpc' = "see_also"
    /\ seeNo' = 1
    /\ UNCHANGED <<chunkVars, ingestVars, indexVars, readerVars, toc_nodes,
                   pages, graph, path_to_id, calls, graph_json, serverVars, callerVars>>

\* one iteration of "for page in pages"
AddSeeAlso ==
    /\ gpc = "see_also" /\ seeNo <= Len(pages)
    /\ LET pg == pages[seeNo]
       IN  graph' = [graph EXCEPT ![pg.id].see_also =
                        SeeAlsoOf(path_to_id, pg, pg.see_also, @)]
    /\ seeNo' = seeNo + 1
    /\ UNCHANGED <<chunkVars, ingestVars, indexVars, readerVars, toc_nodes,
                   pages, path_to_id, calls, gpc, graph_json, serverVars, callerVars>>

\* build_graph returns and ingest_source saves the graph as graph.json
SaveGraph ==
    /\ gpc = "see_also" /\ seeNo > Len(pages)
    /\ graph_json' = [graph_json EXCEPT ![Source] = << JsonDump(graph) >>]
    /\ gpc' = "saved"
    /\ UNCHANGED <<chunkVars, ingestVars, indexVars, readerVars, toc_nodes,
                   pages, graph, path_to_id, calls, seeNo, serverVars, callerVars>>

\* changes a caller makes to the records it got from get_neighbors
MaxEdits == 1

\* the page ids a caller asks about
CallerIds == { GeneratePageId(Source, path) : path \in PagePaths \cup {PathMissing} }
\* the page id a caller writes into a record
EditIds == { GeneratePageId(Source, PathMissing) }

\* a caller holds the result of get_neighbors(page_id): dict.copy() makes a
\* new dict whose 'children' and 'see_also' are the lists of the stored
\* record; the record for an unknown id is built afresh
GetNeighborsCall ==
    /\ gpc = "saved"
    /\ \E page_id \in CallerIds :
          LET got == GetNeighbors(graph, page_id)
          IN  held' = [page_id  |-> <<page_id>>,
                       shared   |-> page_id \in DOMAIN graph,
                       edits    |-> held.edits,
                       parent   |-> got.parent,
                       children |-> got.children,
                       see_also |-> got.see_also]
    /\ UNCHANGED <<chunkVars, ingestVars, indexVars, readerVars, graphVars,
                   serverVars, search_args, queries>>

\* the stored graph after the list `field` of the held record became `list`
GraphAfterEdit(field, list) ==
    IF ~held.shared THEN graph
    ELSE IF field = "children"
         THEN [graph EXCEPT ![held.page_id[1]].children = list]
         ELSE [graph EXCEPT ![held.page_id[1]].see_also = list]

\* the caller runs record[field].append(id)
AppendToHeld ==
    /\ gpc = "saved" /\ held.page_id # <<>> /\ held.edits < MaxEdits
    /\ \E field \in {"children", "see_also"} : \E id \in EditIds :
          LET list == Append(held[field], id)
          IN  /\ held' = [held EXCEPT ![field] = list, !.edits = @ + 1]
              /\ graph' = GraphAfterEdit(field, list)
    /\ UNCHANGED <<chunkVars, ingestVars, indexVars, readerVars, toc_nodes,
                   pages, path_to_id, calls, gpc, seeNo, graph_json, serverVars,
                   search_args, queries>>

\* the caller runs record[field].remove(id)
RemoveFromHeld ==
    /\ gpc = "saved" /\ held.page_id # <<>> /\ held.edits < MaxEdits
    /\ \E field \in {"children", "see_also"} : \E i \in DOMAIN held[field] :
          LET list == SubSeq(held[field], 1, i - 1)
                      \o SubSeq(held[field], i + 1, Len(held[field]))
          IN  /\ held' = [held EXCEPT ![field] = list, !.edits = @ + 1]
              /\ graph' = GraphAfterEdit(field, list)
    /\ UNCHANGED <<chunkVars, ingestVars, indexVars, readerVars, toc_nodes,
                   pages, path_to_id, calls, gpc, seeNo, graph_json, serverVars,
                   search_args, queries>>

\* the caller runs record['parent'] = id: an assignment to a key of the copy
SetHeldParent ==
    /\ gpc = "saved" /\ held.page_id # <<>> /\ held.edits < MaxEdits
    /\ \E id \in EditIds :
          /\ held.parent # <<id>>
          /\ held' = [held EXCEPT !.parent = <<id>>, !.edits = @ + 1]
    /\ UNCHANGED <<chunkVars, ingestVars, indexVars, readerVars, graphVars,
                   serverVars, search_args, queries>>

GraphInit ==
    /\ cfg = CHOOSE c \in Configs : c.min_chunk_tokens = 0
    /\ page = NoPage
    /\ heading_sections = <<>>
    /\ secNo = 1
    /\ current_chunk_text = <<>>
    /\ current_chunk_html = <<>>
    /\ current_offset = 0
    /\ chunk_index = 0
    /\ chunks = <<>>
    /\ chunker_anchor_map = EmptyMap
    /\ cpc = "idle"
    /\ pageNo = 0
    /\ all_chunks = <<>>
    /\ ipc = "none"
    /\ runs = 1
    /\ dirs = {Source}
    /\ hash_seed = [p \in {"pipeline", "reader"} |-> <<>>]
    /\ idx = NewIndexer(Source)
    /\ disk = [s \in Sources |-> EmptyDir]
    /\ disk_before = disk
    /\ ldr = NewIndexer(Source)
    /\ ldr_status = "none"
    /\ response = NoResponse
    /\ toc_nodes \in TocInputs
    /\ pages \in GraphPageInputs
    /\ graph = EmptyMap
    /\ path_to_id = EmptyMap
    /\ calls = <<>>
    /\ gpc = "start"
    /\ seeNo = 1
    /\ graph_json = [s \in Sources |-> <<>>]
    /\ srv_indexer = <<>>
    /\ srv_link_graph = <<>>
    /\ srv_response = NoReply
    /\ search_args = NoSearchArgs
    /\ held = NoHeld
    /\ queries = NoQueries

GraphNext ==
    \/ BuildGraphStart
    \/ ProcessTocNode
    \/ SeeAlsoStart
    \/ AddSeeAlso
    \/ SaveGraph
    \/ GetNeighborsCall
    \/ AppendToHeld
    \/ RemoveFromHeld
    \/ SetHeldParent

SpecGraph == GraphInit /\ [][GraphNext]_vars

---------------------------------------------------------------------------
(* AutoCADMCPServer: tool handlers *)

Tools == {"docs.search", "docs.get", "docs.neighbors"}

\* args.get("query", "") = "" and args.get("id", "") = ""
EmptyQuery == [dense |-> <<>>, lex |-> <<>>]
EmptyId == <<>>

RequestQueries == Queries \cup {EmptyQuery}
\* the ids of the saved chunks, an id no index holds, and the empty id
RequestIds == IndexChunkIds \cup {ChunkId(2, 0), EmptyId}

Reply(tool, source, text, error, items) ==
    [tool |-> tool, source |-> source, text |-> text, error |-> error,
     items |-> items]

\* an exception leaves the handler: no text yet, the message in error
Raise(tool, source, exc) == Reply(tool, source, "", exc, <<>>)

\* a dispatcher that lets the exception of a handler through
HandleCallToolNoCatch(r) == r

\* handle_call_tool: "except Exception as e" turns what a handler raised
\* into the text "Error: {e}"
HandleCallTool(r) == IF r.text = "" THEN [r EXCEPT !.text = "Error"] ELSE r

\* a source argument that is no value of the enum
InvalidSource == "bogus"
RequestSources == Sources \cup {InvalidSource}

\* a conversion that answers an unknown value with the default source
SourceTypeLenient(source_str) ==
    IF source_str \in Sources THEN << source_str >> ELSE << Source >>

\* SourceType(source_str): <<>> stands for the ValueError of the enum
SourceTypeOf(source_str) ==
    IF source_str \in Sources THEN << source_str >> ELSE <<>>

\* "if not self.indexer or self.indexer.source != source"
NeedsLoad(source) == srv_indexer = <<>> \/ srv_indexer[1].source # source

\* self.indexer = HybridIndexer(source=source); self.indexer.load_indices():
\* the attribute is assigned before load_indices runs
CreateAndLoad(source) == LoadIndices(NewIndexer(source), disk[source])

\* "Load link graph": self.link_graph after the block
LoadLinkGraph(source) ==
    IF srv_link_graph = <<>> /\ graph_json[source] # <<>>
    THEN << [source |-> source, graph |-> JsonLoad(graph_json[source][1])] >>
    ELSE srv_link_graph

\* what a handler leaves behind: its return value or exception, the cached
\* indexer and link graph, and the index directories that exist
Outcome(reply, indexer, link_graph, ds) ==
    [reply |-> reply, indexer |-> indexer, link_graph |-> link_graph, dirs |-> ds]

\* the handler returns or raises before it touches anything
Untouched(reply) == Outcome(reply, srv_indexer, srv_link_graph, dirs)

\* the call ends: handle_call_tool returns the text content
Respond(o) ==
    /\ srv_response' = HandleCallTool(o.reply)
    /\ srv_indexer' = o.indexer
    /\ srv_link_graph' = o.link_graph
    /\ dirs' = o.dirs

InvalidSourceMsg == "not a valid SourceType"

\* _handle_search
SearchOutcome(source_str, query, k) ==
    LET tool == "docs.search" IN
    IF query = EmptyQuery
    THEN Untouched(Reply(tool, source_str, "Error: Query is required", "", <<>>))
    ELSE IF SourceTypeOf(source_str) = <<>>
    THEN Untouched(Raise(tool, source_str, InvalidSourceMsg))
    ELSE
    LET source == SourceTypeOf(source_str)[1]
        load   == CreateAndLoad(source)
        ix     == IF NeedsLoad(source) THEN load.ix ELSE srv_indexer[1]
        out    == Search(ix, query, k, hash_seed.server)
    IN  IF NeedsLoad(source) /\ source \notin dirs
        THEN Untouched(Reply(tool, source_str,
                             "Error: Index directory does not exist", "", <<>>))
        ELSE IF NeedsLoad(source) /\ disk[source]["faiss.index"] = <<>>
        THEN Untouched(Reply(tool, source_str, "Error: FAISS index not found",
                             "", <<>>))
        ELSE IF NeedsLoad(source) /\ disk[source]["bm25.pkl"] = <<>>
        THEN Untouched(Reply(tool, source_str, "Error: BM25 index not found",
                             "", <<>>))
        ELSE Outcome(IF NeedsLoad(source) /\ load.raised # ""
                     THEN Reply(tool, source_str, "Error loading indices",
                                load.raised, <<>>)
                     ELSE IF out.raised # ""
                     THEN Raise(tool, source_str, out.raised)
                     ELSE IF out.results = <<>>
                     THEN Reply(tool, source_str, "No results found", "", <<>>)
                     ELSE Reply(tool, source_str, "results", "", out.results),
                     <<ix>>, srv_link_graph, dirs)

\* a docs.search call
HandleSearch ==
    /\ \E source_str \in RequestSources : \E query \in RequestQueries :
       \E k \in Ks :
          Respond(SearchOutcome(source_str, query, k))
    /\ UNCHANGED <<chunkVars, ingestVars, runs, idx, disk, disk_before,
                   readerVars, graphVars, callerVars>>

\* _handle_get
GetOutcome(source_str, chunk_id) ==
    LET tool == "docs.get" IN
    IF chunk_id = EmptyId
    THEN Untouched(Reply(tool, source_str, "Error: ID is required", "", <<>>))
    ELSE IF SourceTypeOf(source_str) = <<>>
    THEN Untouched(Raise(tool, source_str, InvalidSourceMsg))
    ELSE
    LET source == SourceTypeOf(source_str)[1]
        load   == CreateAndLoad(source)
        ix     == IF NeedsLoad(source) THEN load.ix ELSE srv_indexer[1]
        chunk  == GetChunkById(ix, chunk_id)
    IN  Outcome(IF NeedsLoad(source) /\ load.raised # ""
                THEN Raise(tool, source_str, load.raised)
                ELSE IF chunk = <<>>
                THEN Reply(tool, source_str, "Document not found", "", <<>>)
                ELSE Reply(tool, source_str, "document", "", <<chunk[1].id>>),
                <<ix>>, srv_link_graph,
                IF NeedsLoad(source) THEN dirs \cup {source} ELSE dirs)

\* a docs.get call
HandleGet ==
    /\ \E source_str \in RequestSources : \E chunk_id \in RequestIds :
          Respond(GetOutcome(source_str, chunk_id))
    /\ UNCHANGED <<chunkVars, ingestVars, runs, idx, disk, disk_before,
                   readerVars, graphVars, callerVars>>

\* _handle_neighbors
NeighborsOutcome(source_str, chunk_id) ==
    LET tool == "docs.neighbors" IN
    IF chunk_id = EmptyId
    THEN Untouched(Reply(tool, source_str, "Error: ID is required", "", <<>>))
    ELSE IF SourceTypeOf(source_str) = <<>>
    THEN Untouched(Raise(tool, source_str, InvalidSourceMsg))
    ELSE
    LET source == SourceTypeOf(source_str)[1]
        load   == CreateAndLoad(source)
        ix     == IF NeedsLoad(source) THEN load.ix ELSE srv_indexer[1]
        lg     == LoadLinkGraph(source)
        chunk  == GetChunkById(ix, chunk_id)
        ds     == IF NeedsLoad(source) THEN dirs \cup {source} ELSE dirs
    IN  IF NeedsLoad(source) /\ load.raised # ""
        THEN Outcome(Raise(tool, source_str, load.raised), <<ix>>,
                     srv_link_graph, ds)
        ELSE Outcome(IF chunk = <<>>
                     THEN Reply(tool, source_str, "Document not found", "", <<>>)
                     ELSE IF lg # <<>>
                     THEN Reply(tool, source_str, "neighbors", "",
                                << GetNeighbors(lg[1].graph, chunk_id) >>)
                     ELSE Reply(tool, source_str, "Link graph not available",
                                "", <<>>),
                     <<ix>>, lg, ds)

\* a docs.neighbors call
HandleNeighbors ==
    /\ \E source_str \in RequestSources : \E chunk_id \in RequestIds :
          Respond(NeighborsOutcome(source_str, chunk_id))
    /\ UNCHANGED <<chunkVars, ingestVars, runs, idx, disk, disk_before,
                   readerVars, graphVars, callerVars>>

\* _build_toc_text: the root pages for which the indexer has a chunk under
\* the page id, in some order
BuildTocText(lg) ==
    LET roots == { id \in DOMAIN lg.graph : lg.graph[id].parent = <<>> }
        found == { id \in roots :
                     srv_indexer # <<>> /\ GetChunkById(srv_indexer[1], id) # <<>> }
    IN  CHOOSE order \in PermSeqs(found) : TRUE

\* _handle_toc
TocOutcome(source_str) ==
    LET tool == "docs.toc" IN
    IF SourceTypeOf(source_str) = <<>>
    THEN Untouched(Raise(tool, source_str, InvalidSourceMsg))
    ELSE
    LET source == SourceTypeOf(source_str)[1]
        lg     == LoadLinkGraph(source)
    IN  Outcome(IF lg = <<>>
                THEN Reply(tool, source_str, "Table of Contents not found", "",
                           <<>>)
                ELSE Reply(tool, source_str, "toc", "", BuildTocText(lg[1])),
                srv_indexer, lg, dirs)

\* a docs.toc call
HandleToc ==
    /\ \E source_str \in RequestSources : Respond(TocOutcome(source_str))
    /\ UNCHANGED <<chunkVars, ingestVars, runs, idx, disk, disk_before,
                   readerVars, graphVars, callerVars>>

\* a docs.list_sources call
HandleListSources ==
    /\ Respond(Untouched(Reply("docs.list_sources", "", "sources", "",
                               << Sources >>)))
    /\ UNCHANGED <<chunkVars, ingestVars, runs, idx, disk, disk_before,
                   readerVars, graphVars, callerVars>>

\* a docs.health call
HandleHealth ==
    /\ Respond(Untouched(Reply("docs.health", "", "health", "",
                               << srv_indexer # <<>>, srv_link_graph # <<>> >>)))
    /\ UNCHANGED <<chunkVars, ingestVars, runs, idx, disk, disk_before,
                   readerVars, graphVars, callerVars>>

\* a call of a tool the server does not have
HandleUnknownTool ==
    /\ Respond(Untouched(Reply("docs.bogus", "", "Unknown tool", "", <<>>)))
    /\ UNCHANGED <<chunkVars, ingestVars, runs, idx, disk, disk_before,
                   readerVars, graphVars, callerVars>>

---------------------------------------------------------------------------
(* Inputs of the server specification *)

\* the index a completed ingestion run saved: one page of two chunks
SavedRun == RunOf(<<T5, T11>>)
SavedArtifacts(source) ==
    ArtifactsOf(BuildInMemory(NewIndexer(source), SavedRun.chunks,
                              SavedRun.anchor_map))

\* an index directory that holds the given artifacts only
DirWith(source, present) ==
    [ a \in Artifacts |-> IF a \in present THEN SavedArtifacts(source)[a] ELSE <<>> ]

\* the graph an ingestion run saved for the pages "a.html" and "d/b.htm":
\* the first is the TOC parent of the second, which links back to it
SavedGraph ==
    LET a == GeneratePageId(Source, PathA)
        b == GeneratePageId(Source, PathB)
    IN  [ id \in {a, b} |->
            IF id = a
            THEN [NewEntry EXCEPT !.children = <<b>>]
            ELSE [NewEntry EXCEPT !.parent = <<a>>, !.see_also = <<a>>] ]

ServerInit ==
    /\ cfg = CHOOSE c \in Configs : c.min_chunk_tokens = 0
    /\ page = NoPage
    /\ heading_sections = <<>>
    /\ secNo = 1
    /\ current_chunk_text = <<>>
    /\ current_chunk_html = <<>>
    /\ current_offset = 0
    /\ chunk_index = 0
    /\ chunks = <<>>
    /\ chunker_anchor_map = EmptyMap
    /\ cpc = "idle"
    /\ pageNo = 0
    /\ all_chunks = <<>>
    /\ ipc = "none"
    /\ runs = 0
    /\ \E present \in SUBSET Artifacts : \E other \in {{}, Artifacts} :
          disk = [s \in Sources |->
                    IF s = Source THEN DirWith(s, present) ELSE DirWith(s, other)]
    /\ dirs \in { d \in SUBSET Sources :
                    \A s \in Sources : disk[s] # EmptyDir => s \in d }
    /\ disk_before = disk
    /\ hash_seed \in [{"server"} -> HashSeeds]
    /\ idx = NewIndexer(Source)
    /\ ldr = NewIndexer(Source)
    /\ ldr_status = "none"
    /\ response = NoResponse
    /\ toc_nodes = <<>>
    /\ pages = <<>>
    /\ graph = EmptyMap
    /\ path_to_id = EmptyMap
    /\ calls = <<>>
    /\ gpc = "none"
    /\ seeNo = 1
    /\ \E g \in {<<>>, << JsonDump(SavedGraph) >>} :
          graph_json = [s \in Sources |-> IF s = Source THEN g ELSE <<>>]
    /\ srv_indexer = <<>>
    /\ srv_link_graph = <<>>
    /\ srv_response = NoReply
    /\ search_args = NoSearchArgs
    /\ held = NoHeld
    /\ queries = NoQueries

ServerNext ==
    \/ HandleSearch
    \/ HandleGet
    \/ HandleNeighbors
    \/ HandleToc
    \/ HandleListSources
    \/ HandleHealth
    \/ HandleUnknownTool

SpecServer == ServerInit /\ [][ServerNext]_vars

---------------------------------------------------------------------------
(* search(query, k) on a built index, as a function of what the rankers
   make of the query *)

\* chunks of the small corpora; every ranking of them is a query
SmallCorpus == 3
\* chunks of the large corpus, enough for 2k candidates beyond rank RrfK
LargeCorpus == 63
\* the k of the search calls on the large corpus
LargeK == 31

CorpusSizes == (1..SmallCorpus) \cup {LargeCorpus}

\* the chunks of one page handed to build_index
CorpusOf(n) ==
    PatchTotalChunks([ i \in 1..n |->
        CreateChunk([id |-> 1], i - 1, T5, << Hdr(T5, {}) >>, 0, Len(T5)) ])

\* the indexer after build_index(chunks, {})
BuiltIndexer(n) == BuildInMemory(NewIndexer(Source), CorpusOf(n), EmptyMap)

CorpusSize(ix) == Len(ix.faiss_index[1].vectors)

Ascending(n) == [ i \in 1..n |-> i - 1 ]
Descending(n) == [ i \in 1..n |-> n - i ]
Rotated(n) == [ i \in 1..n |-> i % n ]

\* the rankings the two rankers can give a query over n chunks
QueriesFor(n) ==
    LET orders == IF n <= SmallCorpus THEN PermSeqs(0..(n - 1))
                  ELSE {Ascending(n), Descending(n), Rotated(n)}
    IN  { [dense |-> d, lex |-> l] : d \in orders, l \in orders }

KsFor(n) == IF n <= SmallCorpus THEN Ks ELSE {LargeK}

\* two of the orders in which a process may iterate a set of chunk ids
SeedsFor(n) ==
    { [ i \in 1..n |-> ChunkId(1, Ascending(n)[i]) ],
      [ i \in 1..n |-> ChunkId(1, Descending(n)[i]) ] }

\* the call search(query, k) by the holder of the indexer; a search leaves
\* the indexer as it is, so one call per behaviour shows them all
SearchCall ==
    /\ ldr_status = "built"
    /\ search_args = NoSearchArgs
    /\ \E q \in QueriesFor(CorpusSize(ldr)) : \E k \in KsFor(CorpusSize(ldr)) :
          /\ search_args' = [q |-> q, k |-> k]
          /\ response' = [k |-> k, out |-> Search(ldr, q, k, hash_seed.reader)]
    /\ UNCHANGED <<chunkVars, ingestVars, indexVars, ldr, ldr_status, hash_seed,
                   graphVars, serverVars, held, queries>>

SearchInit ==
    /\ cfg = CHOOSE c \in Configs : c.min_chunk_tokens = 0
    /\ page = NoPage
    /\ heading_sections = <<>>
    /\ secNo = 1
    /\ current_chunk_text = <<>>
    /\ current_chunk_html = <<>>
    /\ current_offset = 0
    /\ chunk_index = 0
    /\ chunks = <<>>
    /\ chunker_anchor_map = EmptyMap
    /\ cpc = "idle"
    /\ pageNo = 0
    /\ all_chunks = <<>>
    /\ ipc = "none"
    /\ runs = 0
    /\ dirs = {Source}
    /\ idx = NewIndexer(Source)
    /\ disk = [s \in Sources |-> EmptyDir]
    /\ disk_before = disk
    /\ \E n \in CorpusSizes :
          /\ ldr = BuiltIndexer(n)
          /\ hash_seed \in [{"reader"} -> SeedsFor(n)]
    /\ ldr_status = "built"
    /\ response = NoResponse
    /\ toc_nodes = <<>>
    /\ pages = <<>>
    /\ graph = EmptyMap
    /\ path_to_id = EmptyMap
    /\ calls = <<>>
    /\ gpc = "none"
    /\ seeNo = 1
    /\ graph_json = [s \in Sources |-> <<>>]
    /\ srv_indexer = <<>>
    /\ srv_link_graph = <<>>
    /\ srv_response = NoReply
    /\ search_args = NoSearchArgs
    /\ held = NoHeld
    /\ queries = NoQueries

SearchNext ==
    \/ SearchCall

SpecSearch == SearchInit /\ [][SearchNext]_vars

---------------------------------------------------------------------------
(* Threads that query one loaded index at the same time; a thread may be
   switched out between any two statements of search() *)

\* a conversion that takes the entries it returns out of the chunk metadata
ConvertResultsPopping(ix, combined_scores, k) ==
    LET top   == Take(combined_scores, k)
        found == SelectSeq(top, LAMBDA r : r.id \in DOMAIN ix.chunk_metadata)
        taken == { found[i].id : i \in DOMAIN found }
    IN  [ix |-> [ix EXCEPT !.chunk_metadata =
                     [ id \in DOMAIN @ \ taken |-> @[id] ]],
         results |-> [ i \in DOMAIN found |->
             [ id          |-> found[i].id,
               score       |-> found[i].score,
               chunk_index |-> ix.chunk_metadata[found[i].id].chunk.chunk_index ] ]]

\* "Get top k results" and "Convert to SearchResult objects": the indexer
\* afterwards and the results
ConvertResults(ix, combined_scores, k) ==
    LET top   == Take(combined_scores, k)
        found == SelectSeq(top, LAMBDA r : r.id \in DOMAIN ix.chunk_metadata)
    IN  [ix |-> ix,
         results |-> [ i \in DOMAIN found |->
             [ id          |-> found[i].id,
               score       |-> found[i].score,
               chunk_index |-> ix.chunk_metadata[found[i].id].chunk.chunk_index ] ]]

\* a thread enters search(query, k): the check that the indices are loaded
QueryStart(t) ==
    /\ ldr_status = "serving"
    /\ queries[t].pc \in {"idle", "done", "looked"}
    /\ ldr.faiss_index # <<>> /\ ldr.bm25_index # <<>>
    /\ \E q \in Queries : \E k \in Ks :
          queries' = [queries EXCEPT ![t] = [IdleQuery EXCEPT !.pc = "faiss",
                                                              !.q = q, !.k = k]]
    /\ UNCHANGED <<chunkVars, ingestVars, indexVars, readerVars, graphVars,
                   serverVars, search_args, held>>

\* faiss_scores = self._faiss_search(query, k * 2)
QueryFaiss(t) ==
    /\ queries[t].pc = "faiss"
    /\ queries' = [queries EXCEPT
          ![t].faiss_scores = FaissSearch(ldr, queries[t].q, queries[t].k * 2),
          ![t].pc = "bm25"]
    /\ UNCHANGED <<chunkVars, ingestVars, indexVars, readerVars, graphVars,
                   serverVars, search_args, held>>

\* bm25_scores = self._bm25_search(query, k * 2)
QueryBm25(t) ==
    /\ queries[t].pc = "bm25"
    /\ queries' = [queries EXCEPT
          ![t].bm25_scores = Bm25Search(ldr, queries[t].q, queries[t].k * 2),
          ![t].pc = "fuse"]
    /\ UNCHANGED <<chunkVars, ingestVars, indexVars, readerVars, graphVars,
                   serverVars, search_args, held>>

\* combined_scores = self._reciprocal_rank_fusion(faiss_scores, bm25_scores)
QueryFuse(t) ==
    /\ queries[t].pc = "fuse"
    /\ queries' = [queries EXCEPT
          ![t].combined_scores =
              ReciprocalRankFusion(queries[t].faiss_scores, queries[t].bm25_scores,
                                   hash_seed.reader),
          ![t].pc = "convert"]
    /\ UNCHANGED <<chunkVars, ingestVars, indexVars, readerVars, graphVars,
                   serverVars, search_args, held>>

\* the rest of search(): the top k, converted with the chunk metadata
QueryConvert(t) ==
    /\ queries[t].pc = "convert"
    /\ LET r == ConvertResults(ldr, queries[t].combined_scores, queries[t].k)
       IN  /\ ldr' = r.ix
           /\ queries' = [queries EXCEPT ![t].results = r.results,
                                         ![t].pc = "done"]
    /\ UNCHANGED <<chunkVars, ingestVars, indexVars, ldr_status, hash_seed,
                   response, graphVars, serverVars, search_args, held>>

\* a thread calls get_chunk_by_id(chunk_id) or
\* get_chunk_by_anchor(page_id, anchor)
LookupCall(t) ==
    /\ ldr_status = "serving"
    /\ queries[t].pc \in {"idle", "done", "looked"}
    /\ \E arg \in { <<"id", id>> : id \in IndexChunkIds \cup {ChunkId(2, 0)} }
                  \cup { <<"anchor", 1, a>> : a \in {"x", "y"} } :
          queries' = [queries EXCEPT ![t] =
              [IdleQuery EXCEPT
                 !.pc = "looked",
                 !.arg = arg,
                 !.results = IF arg[1] = "id" THEN GetChunkById(ldr, arg[2])
                             ELSE GetChunkByAnchor(ldr, arg[2], arg[3])]]
    /\ UNCHANGED <<chunkVars, ingestVars, indexVars, readerVars, graphVars,
                   serverVars, search_args, held>>

ServeInit ==
    /\ cfg = CHOOSE c \in Configs : c.min_chunk_tokens = 0
    /\ page = NoPage
    /\ heading_sections = <<>>
    /\ secNo = 1
    /\ current_chunk_text = <<>>
    /\ current_chunk_html = <<>>
    /\ current_offset = 0
    /\ chunk_index = 0
    /\ chunks = <<>>
    /\ chunker_anchor_map = EmptyMap
    /\ cpc = "idle"
    /\ pageNo = 0
    /\ all_chunks = <<>>
    /\ ipc = "none"
    /\ runs = 0
    /\ dirs = {Source}
    /\ idx = NewIndexer(Source)
    /\ disk = [s \in Sources |-> EmptyDir]
    /\ disk_before = disk
    /\ \E r \in RunOutputs :
          /\ r.chunks # <<>>
          /\ ldr = BuildInMemory(NewIndexer(Source), r.chunks, r.anchor_map)
    /\ hash_seed \in [{"reader"} -> HashSeeds]
    /\ ldr_status = "serving"
    /\ response = NoResponse
    /\ toc_nodes = <<>>
    /\ pages = <<>>
    /\ graph = EmptyMap
    /\ path_to_id = EmptyMap
    /\ calls = <<>>
    /\ gpc = "none"
    /\ seeNo = 1
    /\ graph_json = [s \in Sources |-> <<>>]
    /\ srv_indexer = <<>>
    /\ srv_link_graph = <<>>
    /\ srv_response = NoReply
    /\ search_args = NoSearchArgs
    /\ held = NoHeld
    /\ queries = NoQueries


ServeNext ==
    \/ \E t \in Threads : QueryStart(t)
    \/ \E t \in Threads : QueryFaiss(t)
    \/ \E t \in Threads : QueryBm25(t)
    \/ \E t \in Threads : QueryFuse(t)
    \/ \E t \in Threads : QueryConvert(t)
    \/ \E t \in Threads : LookupCall(t)

SpecServe == ServeInit /\ [][ServeNext]_vars

---------------------------------------------------------------------------
(* Chunker and ingestion properties *)

RECURSIVE JoinSectionTexts(_, _, _)
\* the texts of sections i..j joined by single spaces
JoinSectionTexts(secs, i, j) ==
    IF i > j THEN <<>>
    ELSE IF i = j THEN secs[i].text
    ELSE secs[i].text \o <<SP>> \o JoinSectionTexts(secs, i + 1, j)

RECURSIVE ConcatSectionHtml(_, _, _)
ConcatSectionHtml(secs, i, j) ==
    IF i > j THEN <<>> ELSE secs[i].html \o ConcatSectionHtml(secs, i + 1, j)

IsPrefix(a, b) == Len(a) <= Len(b) /\ SubSeq(b, 1, Len(a)) = a

PageHasHeading == \E i \in DOMAIN page.elements : IsHeading(page.elements[i])

\* the overlap seeds a chunk starting at section i can carry: the last n
\* words of the page's text before section i, joined by single spaces
SeedsBefore(secs, i) ==
    LET before == Split(JoinSectionTexts(secs, 1, i - 1))
    IN  { JoinWords(PySliceFrom(before, -n)) : n \in 1..Len(before) }

\* the section ranges <<i, j>> a chunk can be made of
RangesOf(c, secs) ==
    { r \in (DOMAIN secs) \X (DOMAIN secs) :
        /\ r[1] <= r[2]
        /\ c.html_content = ConcatSectionHtml(secs, r[1], r[2])
        /\ \/ c.content = JoinSectionTexts(secs, r[1], r[2])
           \/ \E seed \in SeedsBefore(secs, r[1]) :
                c.content = seed \o <<SP>> \o JoinSectionTexts(secs, r[1], r[2]) }

\* C1: for two consecutive chunks c_i, c_(i+1) emitted for a page, the content
\* of c_(i+1) starts with the overlap text of c_i (its trailing words)
\* followed by a section of the page, whose html starts c_(i+1)'s html.
C1_OverlapFromPreviousChunk ==
    \A i \in 1..(Len(chunks) - 1) :
        LET seed == GetOverlapText(chunks[i].content, cfg.overlap_tokens)
        IN  \E k \in DOMAIN heading_sections :
              /\ IsPrefix(heading_sections[k].html, chunks[i + 1].html_content)
              /\ IsPrefix(SeedWithOverlap(seed, heading_sections[k].text),
                          chunks[i + 1].content)

\* C9: on a page with a heading, every emitted chunk is an optional overlap
\* seed followed by whole consecutive sections joined by single spaces, the
\* sections of a later chunk come after those of an earlier one, and once
\* chunk_page has returned a section larger than target_tokens is in a chunk.
C9_HeadingBoundaryRespect ==
    PageHasHeading =>
        /\ \A i \in DOMAIN chunks : RangesOf(chunks[i], heading_sections) # {}
        /\ \A i \in DOMAIN chunks : \A j \in DOMAIN chunks :
              i < j => \E r \in RangesOf(chunks[i], heading_sections) :
                       \E q \in RangesOf(chunks[j], heading_sections) :
                          r[2] < q[1]
        /\ cpc = "returned" =>
              \A k \in DOMAIN heading_sections :
                 EstimateTokens(heading_sections[k].text) > cfg.target_tokens =>
                    \E i \in DOMAIN chunks :
                    \E r \in RangesOf(chunks[i], heading_sections) :
                       r[1] <= k /\ k <= r[2]

\* a page with a heading whose chunks include a seeded chunk and a chunk
\* holding a section larger than target_tokens
C9_Witness ==
    /\ PageHasHeading /\ cpc = "returned" /\ Len(chunks) >= 2
    /\ \E i \in DOMAIN chunks :
          \E r \in RangesOf(chunks[i], heading_sections) :
             chunks[i].content # JoinSectionTexts(heading_sections, r[1], r[2])
    /\ \E k \in DOMAIN heading_sections :
          EstimateTokens(heading_sections[k].text) > cfg.target_tokens

\* C22: once chunk_page has returned, every section of the page is whole in
\* the content of an emitted chunk, except the sections of the buffer the
\* page ended with when that buffer is below min_chunk_tokens.
C22_NoMidPageLoss ==
    cpc = "returned" =>
        \A k \in DOMAIN heading_sections :
            \/ \E i \in DOMAIN chunks :
               \E r \in RangesOf(chunks[i], heading_sections) :
                  r[1] <= k /\ k <= r[2]
            \/ /\ ~MeetsMin(current_chunk_text)
               /\ \E j \in 1..k :
                     current_chunk_html =
                         ConcatSectionHtml(heading_sections, j, Len(heading_sections))

\* C23: a section that comes to a non-empty buffer closes the buffer
\* exactly when floor(len(buffer) / 4) + floor(len(section) / 4) is greater
\* than target_tokens.
C23_CloseDecisionEstimate ==
    [][(cpc = "loop" /\ secNo <= Len(heading_sections)
          /\ current_chunk_text # <<>>) =>
         LET section == heading_sections[secNo]
         IN  (current_chunk_html' = section.html) <=>
               (EstimateTokens(current_chunk_text) + EstimateTokens(section.text)
                  > cfg.target_tokens)]_vars

\* the last n items of a sequence that has at least n items
LastItems(seq, n) == SubSeq(seq, Len(seq) - n + 1, Len(seq))

\* C24: when a buffer with at least floor(overlap_tokens / 4) words is closed,
\* the next buffer is seeded with exactly its floor(overlap_tokens / 4)
\* trailing words.
C24_SeedWordCount ==
    [][(cpc = "loop" /\ secNo <= Len(heading_sections)
          /\ WouldExceed(current_chunk_text, heading_sections[secNo].text)
          /\ Len(Split(current_chunk_text)) >=
                cfg.overlap_tokens \div OverlapDivisor) =>
         current_chunk_text' =
             SeedWithOverlap(
                 JoinWords(LastItems(Split(current_chunk_text),
                                     cfg.overlap_tokens \div OverlapDivisor)),
                 heading_sections[secNo].text)]_vars

\* C30: on a page with a heading, the sections hold, in page order, every
\* heading and every block element with text, those before the first
\* heading included.
C30_LeadingBlocksInSections ==
    (cpc # "idle" /\ PageHasHeading) =>
        ConcatSectionHtml(heading_sections, 1, Len(heading_sections)) =
            SelectSeq(page.elements, LAMBDA e : IsHeading(e) \/ e.text # <<>>)

ChunksOfPage(pid) == SelectSeq(all_chunks, LAMBDA c : c.page_id = pid)

\* C10: every chunk of a chunked page carries total_chunks = the number of
\* chunks emitted for that page, and the page's chunks carry chunk_index
\* 0..n-1 in emission order.
C10_TotalChunks ==
    \A pid \in 1..pageNo :
        LET cs == ChunksOfPage(pid)
        IN  \A i \in DOMAIN cs :
               /\ cs[i].total_chunks = Len(cs)
               /\ cs[i].chunk_index = i - 1

\* two pages chunked, one of them into at least two chunks
C10_Witness ==
    /\ pageNo = 2
    /\ Len(ChunksOfPage(1)) >= 2
    /\ Len(ChunksOfPage(2)) >= 1

---------------------------------------------------------------------------
(* Indexer properties *)

\* C2: once the index is built and saved and a fresh indexer has loaded the
\* saved artifacts, every query and every k give the same ordered results
\* (ids, order, fused scores) on both indexers.
C2_RoundTrip ==
    (ipc = "done" /\ ldr_status = "loaded" /\ ldr = idx) =>
        \A q \in Queries : \A k \in Ks :
            Search(ldr, q, k, hash_seed.reader)
                = Search(idx, q, k, hash_seed.pipeline)

\* C4: on the index built by an ingestion run, every anchor recorded for a
\* chunk leads get_chunk_by_anchor(page_id, anchor) to exactly that chunk.
C4_AnchorLookup ==
    ipc \in SaveSteps \cup {"done"} =>
        \A id \in DOMAIN idx.chunk_metadata :
            LET c == idx.chunk_metadata[id].chunk
            IN  \A a \in c.anchors : GetChunkByAnchor(idx, c.page_id, a) = <<c>>

\* C5: load_indices completes without raising only if all four persisted
\* artifacts are in the index directory.
C5_LoadFailsOnMissingArtifact ==
    ldr_status = "loaded" => \A a \in Artifacts : disk[ldr.source][a] # <<>>

\* C6: on an indexer that was never loaded, or whose load_indices raised,
\* search raises for every query and k instead of returning a result list.
C6_SearchPrecondition ==
    ldr_status \notin {"none", "loaded"} =>
        \A q \in Queries : \A k \in Ks :
            Search(ldr, q, k, hash_seed.reader).raised # ""

\* C8: from the first write of a rebuild on, also after an interruption, the
\* index directory holds either exactly what it held before the rebuild or
\* exactly the artifacts of the new build.
C8_AtomicRebuild ==
    ipc \in SaveSteps \cup {"done", "killed"} =>
        \/ disk[idx.source] = disk_before[idx.source]
        \/ disk[idx.source] = ArtifactsOf(idx)

\* C18: build_index with an empty chunk list raises and leaves the dense
\* index, the lexical index, the chunk metadata and the anchor map of the
\* indexer and the artifacts on disk as they were.
C18_EmptyBuildChangesNothing ==
    [][/\ (ipc = "chunking" /\ ipc' = "failed") =>
             (idx' = idx /\ disk' = disk)
       /\ (response' # response
             /\ response'.out.raised = "No chunks provided for indexing") =>
             (ldr' = ldr /\ disk' = disk)]_vars

\* build_index([], anchor_map) has failed on an indexer that had loaded its
\* indices and an anchor map, and an ingestion run without chunks has
\* failed over the artifacts of an earlier run
C18_Witness ==
    /\ response.out.raised = "No chunks provided for indexing"
    /\ ldr_status = "loaded"
    /\ ldr.faiss_index # <<>>
    /\ DOMAIN ldr.anchor_map # {}
    /\ ipc = "failed"
    /\ \A a \in Artifacts : disk[Source][a] # <<>>

---------------------------------------------------------------------------
(* Link graph properties *)

\* build_graph has returned and no caller has written to a record of the graph
GraphBuilt == gpc = "saved" /\ held.edits = 0

\* C3: after build_graph, A is in graph[B].children exactly if
\* graph[A].parent is B, for all page ids A and B.
C3_BackReferenceConsistency ==
    GraphBuilt =>
        \A a \in DOMAIN graph : \A b \in DOMAIN graph :
            InSeq(a, graph[b].children) <=> graph[a].parent = <<b>>

\* C15: after build_graph no page id appears in its own see_also list.
C15_NoSelfSeeAlso ==
    GraphBuilt => \A id \in DOMAIN graph : ~InSeq(id, graph[id].see_also)

\* the link of the page resolves to the page itself at the given attempt:
\* the exact path, the path relative to the page's directory, or one of them
\* with an extension appended
SelfLinkBy(pg, rule) ==
    \E i \in DOMAIN pg.see_also :
        LET link == pg.see_also[i]
            rel  == JoinPath(ParentDir(pg.path), link)
        IN  /\ ResolveLinkPath(path_to_id, link, pg.path) = << pg.id >>
            /\ CASE rule = "exact"    -> link \in DOMAIN path_to_id
                  [] rule = "relative" -> link \notin DOMAIN path_to_id
                                          /\ rel \in DOMAIN path_to_id
                  [] OTHER -> link \notin DOMAIN path_to_id
                              /\ rel \notin DOMAIN path_to_id

\* a built graph of three pages that refer to themselves, one by each kind
\* of resolution
C15_Witness ==
    /\ GraphBuilt
    /\ \A rule \in {"exact", "relative", "extension"} :
          \E i \in DOMAIN pages : SelfLinkBy(pages[i], rule)

\* a TOC node is addressed by the child numbers on the way to it from the
\* list of root nodes
RECURSIVE ValidAddress(_, _)
ValidAddress(nodes, addr) ==
    /\ addr # <<>>
    /\ addr[1] \in DOMAIN nodes
    /\ Len(addr) = 1 \/ ValidAddress(nodes[addr[1]].children, Tail(addr))

RECURSIVE NodeAt(_, _)
NodeAt(nodes, addr) ==
    IF Len(addr) = 1 THEN nodes[addr[1]]
    ELSE NodeAt(nodes[addr[1]].children, Tail(addr))

TocAddresses ==
    { a \in SeqsUpTo(1..TocWidth, TocDepth) : ValidAddress(toc_nodes, a) }

\* the node at the address has a page
Resolves(a) ==
    LET node == NodeAt(toc_nodes, a)
    IN  node.path # <<>> /\ node.path \in DOMAIN path_to_id

PageOf(a) == path_to_id[NodeAt(toc_nodes, a).path]

\* the page of the nearest ancestor with a page, <<>> when there is none
NearestResolved(a) ==
    LET ns == { n \in 1..(Len(a) - 1) : Resolves(SubSeq(a, 1, n)) }
    IN  IF ns = {} THEN <<>>
        ELSE << PageOf(SubSeq(a, 1, CHOOSE n \in ns : \A m \in ns : m <= n)) >>

\* a node with a page, listed under a node without one that has an ancestor
\* with a page
ThroughTransparent(a) ==
    /\ Len(a) >= 2
    /\ Resolves(a)
    /\ ~Resolves(SubSeq(a, 1, Len(a) - 1))
    /\ NearestResolved(a) # <<>>

\* a comes before b when the forest is walked node first, then its children
WalkedBefore(a, b) ==
    \/ Len(a) < Len(b) /\ SubSeq(b, 1, Len(a)) = a
    \/ \E i \in 1..Len(a) :
          /\ i <= Len(b)
          /\ SubSeq(a, 1, i - 1) = SubSeq(b, 1, i - 1)
          /\ a[i] < b[i]

RECURSIVE ForestSize(_)
ForestSize(nodes) ==
    IF nodes = <<>> THEN 0
    ELSE 1 + ForestSize(Head(nodes).children) + ForestSize(Tail(nodes))

\* the address of the node the next _process_toc_node call is for: the
\* nodes walked so far are those not under a pending call
CurrentAddress ==
    LET walked == ForestSize(toc_nodes)
                  - ForestSize([ i \in DOMAIN calls |-> calls[i].node ])
    IN  CHOOSE a \in TocAddresses :
            Cardinality({ b \in TocAddresses : WalkedBefore(b, a) }) = walked

\* C16: a page listed under a TOC node with an empty path, or with a path
\* of no page, gets as parent the nearest ancestor of that node that has a
\* page when its listing is processed and is added to that ancestor's
\* children; in the built graph it is still among those children and has a
\* parent.
C16_TransparentTocNodes ==
    /\ [][(gpc = "toc" /\ calls # <<>> /\ ThroughTransparent(CurrentAddress)) =>
             LET child  == PageOf(CurrentAddress)
                 parent == NearestResolved(CurrentAddress)
             IN  /\ graph'[child].parent = parent
                 /\ InSeq(child, graph'[parent[1]].children)]_vars
    /\ [](GraphBuilt =>
             \A a \in TocAddresses : ThroughTransparent(a) =>
                 /\ InSeq(PageOf(a), graph[NearestResolved(a)[1]].children)
                 /\ graph[PageOf(a)].parent # <<>>)

\* a built graph whose TOC lists one page under a node with an empty path
\* and another under a node whose path has no page, both below a page
C16_Witness ==
    /\ GraphBuilt
    /\ \E a, b \in TocAddresses :
          /\ ThroughTransparent(a) /\ ThroughTransparent(b)
          /\ NodeAt(toc_nodes, SubSeq(a, 1, Len(a) - 1)).path = <<>>
          /\ NodeAt(toc_nodes, SubSeq(b, 1, Len(b) - 1)).path # <<>>
          /\ graph[PageOf(a)].parent = NearestResolved(a)
          /\ graph[PageOf(b)].parent = NearestResolved(b)

\* the paths _resolve_link_path looks up for a link of the page at `path`,
\* in the order it tries them
Attempts(link, path) ==
    LET dir == ParentDir(path)
        WithExt(ext) == IF EndsWith(link, ext) THEN <<>>
                        ELSE << Append(link, ext), JoinPath(dir, Append(link, ext)) >>
    IN  << link, JoinPath(dir, link) >> \o WithExt(".html") \o WithExt(".htm")

\* the number of the first attempt that is the path of a page, 0 if none is
FirstMatch(link, path) ==
    LET tries == Attempts(link, path)
        hits  == { i \in DOMAIN tries : tries[i] \in DOMAIN path_to_id }
    IN  IF hits = {} THEN 0 ELSE CHOOSE i \in hits : \A j \in hits : i <= j

TargetOf(link, path) ==
    IF FirstMatch(link, path) = 0 THEN <<>>
    ELSE << path_to_id[Attempts(link, path)[FirstMatch(link, path)]] >>

\* the targets of the links of a page, in the order of the links, without
\* the page itself, repeated targets and links that match nothing
ExpectedSeeAlso(pg) ==
    LET target(i) == TargetOf(pg.see_also[i], pg.path)
        kept == SelectSeq([ i \in DOMAIN pg.see_also |-> i ],
                    LAMBDA i : /\ target(i) # <<>>
                               /\ target(i)[1] # pg.id
                               /\ \A j \in 1..(i - 1) : target(j) # target(i))
    IN  [ n \in DOMAIN kept |-> target(kept[n])[1] ]

\* the page's entry in the graph is that of no other page
OwnEntry(i) == \A j \in DOMAIN pages : pages[j].id = pages[i].id => j = i

\* C17: each outbound reference is resolved by the first match among the
\* exact path, the path relative to the page's directory, and both again
\* with .html and then .htm appended; a reference that matches nothing adds
\* no edge and the references and pages after it are still processed; the
\* edges of a page are read from the entry that is the page's alone.
C17_SeeAlsoResolutionOrder ==
    GraphBuilt =>
        \A i \in DOMAIN pages :
            OwnEntry(i) => graph[pages[i].id].see_also = ExpectedSeeAlso(pages[i])

\* a built graph with a page whose first link matches nothing and whose
\* second link resolves at the last attempt, before a page with an edge of
\* its own
C17_Witness ==
    /\ GraphBuilt
    /\ \E i, j \in DOMAIN pages :
          /\ i < j
          /\ Len(pages[i].see_also) = 2
          /\ FirstMatch(pages[i].see_also[1], pages[i].path) = 0
          /\ FirstMatch(pages[i].see_also[2], pages[i].path) = 6
          /\ Len(graph[pages[i].id].see_also) = 1
          /\ graph[pages[j].id].see_also # <<>>
          /\ FirstMatch(pages[j].see_also[1], pages[j].path) \in {1, 2}

\* C14: a change the caller makes to the record returned by
\* get_neighbors(page_id), appending to or removing from its children or
\* see_also lists included, leaves the stored graph unchanged.
C14_GetNeighborsValueCopy ==
    [][(held.page_id # <<>> /\ held'.edits > held.edits) => graph' = graph]_vars

---------------------------------------------------------------------------
(* Server properties *)

\* load_indices raises on the index directory of the source
CannotLoad(source) == CreateAndLoad(source).raised # ""

\* C7: while the index of a source cannot be loaded, no docs.search, docs.get
\* or docs.neighbors request for that source, the first or a later one, is
\* answered with "No results found" or "Document not found".
C7_LoadErrorOnEveryRequest ==
    (/\ srv_response.tool \in Tools
     /\ srv_response.source \in Sources
     /\ CannotLoad(srv_response.source)) =>
        srv_response.text \notin {"No results found", "Document not found"}

---------------------------------------------------------------------------
(* Search properties *)

\* the candidate lists of the last search call
DenseCandidates == FaissSearch(ldr, search_args.q, search_args.k * 2)
LexicalCandidates == Bm25Search(ldr, search_args.q, search_args.k * 2)
Fused == ReciprocalRankFusion(DenseCandidates, LexicalCandidates, hash_seed.reader)

\* a / b > c / d for positive denominators
FracGreater(x, y) == x[1] * y[2] > y[1] * x[2]

\* C11: a chunk at rank 0 of both candidate lists has a fused score strictly
\* greater than that of every other candidate and is the first result of
\* the search.
C11_FusionMonotonicity ==
    LET dense == DenseCandidates
        lex   == LexicalCandidates
        fused == Fused
    IN  (search_args.k > 0 /\ dense # <<>> /\ lex # <<>> /\ dense[1] = lex[1]) =>
            /\ fused[1].id = dense[1]
            /\ \A j \in 2..Len(fused) :
                  FracGreater(fused[1].score, fused[j].score)
            /\ response.out.results # <<>>
            /\ response.out.results[1].id = dense[1]

\* a search whose two rankers agree on the first chunk while other chunks
\* are candidates of one ranker only
C11_Witness ==
    /\ search_args.k > 0
    /\ DenseCandidates # <<>> /\ LexicalCandidates # <<>>
    /\ DenseCandidates[1] = LexicalCandidates[1]
    /\ Len(Fused) >= 3
    /\ \E i \in DOMAIN DenseCandidates :
          ~InSeq(DenseCandidates[i], LexicalCandidates)
    /\ response.out.results[1].id = DenseCandidates[1]

\* the first 2k chunks of a ranking of the corpus
FirstOfRanking(ranking, k) ==
    [ i \in 1..(IF 2 * k < Len(ranking) THEN 2 * k ELSE Len(ranking)) |->
        ChunkId(1, ranking[i]) ]

\* the 0-based position of id in a candidate list, RrfK when it is absent
PositionIn(list, id) ==
    IF \E i \in DOMAIN list : list[i] = id
    THEN (CHOOSE i \in DOMAIN list : list[i] = id) - 1
    ELSE RrfK

\* x = 1 / (RrfK + a + 1) + 1 / (RrfK + b + 1)
IsFusedScore(x, a, b) ==
    x[1] * (RrfK + a + 1) * (RrfK + b + 1) = x[2] * ((RrfK + a + 1) + (RrfK + b + 1))

\* C12: search(query, k) takes the first 2k chunks of each ranking (all of
\* them when there are fewer), scores each candidate
\* 1/(60 + rank_dense + 1) + 1/(60 + rank_lexical + 1) by its 0-based
\* positions in the two lists, and returns at most k results with pairwise
\* distinct chunk ids in non-increasing order of that score, none of them
\* scored below a candidate that was left out.
C12_SearchContract ==
    search_args.k > 0 =>
        LET k     == search_args.k
            dense == FirstOfRanking(search_args.q.dense, k)
            lex   == FirstOfRanking(search_args.q.lex, k)
            cands == { dense[i] : i \in DOMAIN dense } \cup { lex[i] : i \in DOMAIN lex }
            res   == response.out.results
        IN  /\ DenseCandidates = dense
            /\ LexicalCandidates = lex
            /\ response.out.raised = ""
            /\ Len(res) <= k
            /\ Len(res) = IF k < Cardinality(cands) THEN k ELSE Cardinality(cands)
            /\ \A i \in DOMAIN res :
                  /\ res[i].id \in cands
                  /\ IsFusedScore(res[i].score, PositionIn(dense, res[i].id),
                                  PositionIn(lex, res[i].id))
            /\ \A i, j \in DOMAIN res : i < j =>
                  /\ res[i].id # res[j].id
                  /\ ~FracGreater(res[j].score, res[i].score)
            /\ \A id \in cands : \A i \in DOMAIN res :
                  (\A j \in DOMAIN res : res[j].id # id) =>
                      ~FracGreater(RrfScore(PositionIn(dense, id), PositionIn(lex, id)),
                                   res[i].score)

\* a search in which both rankers had more than 2k chunks to offer and the
\* fusion had more than k candidates of differing scores to return
C12_Witness ==
    /\ search_args.k > 0
    /\ Len(DenseCandidates) = 2 * search_args.k
    /\ Len(DenseCandidates) < CorpusSize(ldr)
    /\ Len(Fused) > search_args.k
    /\ Len(response.out.results) = search_args.k
    /\ search_args.k >= 2
    /\ FracGreater(response.out.results[1].score, response.out.results[2].score)

\* what a ranker contributes to the score of a chunk at rank r: 1 / (RrfK + r + 1)
Contribution(r) == <<1, RrfK + r + 1>>

\* C13: a chunk absent from one ranker's candidate list receives from that
\* ranker a contribution no larger than that of any chunk present in the
\* list.
C13_MissingRankerPenalty ==
    search_args.k > 0 =>
        LET dense == DenseCandidates
            lex   == LexicalCandidates
            cands == { dense[i] : i \in DOMAIN dense } \cup { lex[i] : i \in DOMAIN lex }
            Worst(list) ==
                \A absent \in cands : \A i \in DOMAIN list :
                    ~InSeq(absent, list) =>
                        ~FracGreater(Contribution(RankOf(list, absent, RrfK)),
                                     Contribution(RankOf(list, list[i], RrfK)))
        IN  Worst(dense) /\ Worst(lex)

\* C19: a docs.search, docs.get, docs.toc or docs.neighbors request whose
\* source is no value of the enum is answered with a validation error, and
\* the cached indexer, the cached link graph, the index directories and
\* their files are after the request what they were before it.
C19_InvalidSourceRejected ==
    [][(/\ srv_response'.tool \in Tools \cup {"docs.toc"}
        /\ srv_response'.source \notin Sources) =>
           /\ srv_response'.text \in
                 {"Error", "Error: Query is required", "Error: ID is required"}
           /\ srv_response'.text = "Error" =>
                 srv_response'.error = "not a valid SourceType"
           /\ srv_indexer' = srv_indexer
           /\ srv_link_graph' = srv_link_graph
           /\ dirs' = dirs
           /\ disk' = disk
           /\ graph_json' = graph_json]_vars

\* a request with an unknown source was refused by a server that holds a
\* loaded indexer and a loaded link graph
C19_Witness ==
    /\ srv_response.tool \in Tools \cup {"docs.toc"}
    /\ srv_response.source \notin Sources
    /\ srv_response.text = "Error"
    /\ srv_response.error = "not a valid SourceType"
    /\ srv_indexer # <<>> /\ srv_indexer[1].faiss_index # <<>>
    /\ srv_link_graph # <<>>

\* C20: every tool call, whatever the tool name, the arguments and the
\* state of the server, ends with a text response; what a handler raises
\* comes back as an "Error" text.
C20_AlwaysTextResponse ==
    srv_response.tool # "" =>
        /\ srv_response.text # ""
        /\ srv_response.error # "" =>
              srv_response.text \in {"Error", "Error loading indices"}

\* a docs.get or docs.neighbors call during which load_indices raised
C20_Witness ==
    /\ srv_response.tool \in {"docs.get", "docs.neighbors"}
    /\ srv_response.source \in Sources
    /\ srv_response.text = "Error"
    /\ srv_response.error \in
          {"FAISS index not found", "BM25 index not found", "Metadata not found"}

---------------------------------------------------------------------------
(* Relative references *)

RECURSIVE Normalised(_)
\* a path without its "name/.." pairs
Normalised(p) ==
    LET ups == { i \in 1..(Len(p) - 3) :
                   /\ p[i] \notin {SL, ".."} /\ p[i + 1] = SL
                   /\ p[i + 2] = ".." /\ p[i + 3] = SL }
    IN  IF ups = {} THEN p
        ELSE LET i == CHOOSE j \in ups : \A m \in ups : j <= m
             IN  Normalised(SubSeq(p, 1, i - 1) \o SubSeq(p, i + 4, Len(p)))

\* C25: in the built graph, a reference of a page that, taken relative to
\* the page's directory and with its ".." segments normalised, names another
\* existing page gives a see_also edge to that page.
C25_RelativeReferenceResolved ==
    GraphBuilt =>
        \A i \in DOMAIN pages : \A n \in DOMAIN pages[i].see_also :
            LET target == Normalised(JoinPath(ParentDir(pages[i].path),
                                              pages[i].see_also[n]))
            IN  (target \in DOMAIN path_to_id /\ path_to_id[target] # pages[i].id)
                    => InSeq(path_to_id[target], graph[pages[i].id].see_also)

\* C28: the pages of a built graph that were parsed from distinct relative
\* paths have distinct page ids, and each has its own entry in the graph.
C28_DistinctPageIds ==
    GraphBuilt =>
        /\ \A i \in DOMAIN pages : \A j \in DOMAIN pages :
              pages[i].path # pages[j].path => pages[i].id # pages[j].id
        /\ Cardinality(DOMAIN graph) = Len(pages)

RECURSIVE ReachesRoot(_, _, _)
\* following parent from the page ends at a page without parent within n steps
ReachesRoot(g, id, n) ==
    IF g[id].parent = <<>> THEN TRUE
    ELSE IF n = 0 \/ g[id].parent[1] \notin DOMAIN g THEN FALSE
    ELSE ReachesRoot(g, g[id].parent[1], n - 1)

\* C29: in the built graph no page is its own parent and following parent
\* from any page ends at a page without parent.
C29_ParentAcyclic ==
    GraphBuilt =>
        \A id \in DOMAIN graph :
            /\ graph[id].parent # << id >>
            /\ ReachesRoot(graph, id, Cardinality(DOMAIN graph))

---------------------------------------------------------------------------
(* Link graph held by the server *)

\* C26: a docs.neighbors or docs.toc call for a source that was answered from
\* a link graph was answered from the graph of that source.
C26_LinkGraphOfRequestedSource ==
    (/\ srv_response.tool \in {"docs.neighbors", "docs.toc"}
     /\ srv_response.text \in {"neighbors", "toc"}) =>
        /\ srv_link_graph # <<>>
        /\ srv_link_graph[1].source = srv_response.source

\* C27: a docs.neighbors call for the id of an indexed chunk that was
\* answered from the link graph of the requested source reports the parent,
\* children and see_also of a page of that graph, the page of the chunk.
C27_NeighborsOfChunkPage ==
    (/\ srv_response.tool = "docs.neighbors"
     /\ srv_response.text = "neighbors"
     /\ srv_link_graph # <<>>
     /\ srv_link_graph[1].source = srv_response.source) =>
        \E page_id \in DOMAIN srv_link_graph[1].graph :
            srv_response.items[1] = srv_link_graph[1].graph[page_id]

---------------------------------------------------------------------------
(* Concurrent serving properties *)

\* C21: no statement of search, get_chunk_by_id or get_chunk_by_anchor
\* changes the dense index, the lexical index, the chunk metadata or the
\* anchor map, and under every interleaving of the threads each call
\* returns what it returns when it runs alone.
C21_ConcurrentReadOnlyServing ==
    /\ [][ldr' = ldr]_vars
    /\ [](\A t \in Threads :
            /\ queries[t].pc = "done" =>
                  queries[t].results =
                      Search(ldr, queries[t].q, queries[t].k, hash_seed.reader).results
            /\ (queries[t].pc = "looked" /\ queries[t].arg[1] = "id") =>
                  queries[t].results = GetChunkById(ldr, queries[t].arg[2])
            /\ (queries[t].pc = "looked" /\ queries[t].arg[1] = "anchor") =>
                  queries[t].results =
                      GetChunkByAnchor(ldr, queries[t].arg[2], queries[t].arg[3]))

\* one thread has returned results while another, with another query, is
\* between its two rankers, on an index of more than one chunk
C21_Witness ==
    /\ Cardinality(DOMAIN ldr.chunk_metadata) > 1
    /\ \E t, u \in Threads :
          /\ queries[t].pc = "done" /\ queries[t].results # <<>>
          /\ queries[u].pc = "bm25" /\ queries[u].faiss_scores # <<>>
          /\ queries[u].q # queries[t].q

===========================================================================
